---- MODULE Spec2Model ----
(***************************************************************************)
(* A model of the sx-bet-basics command line tools: the fixed-point odds   *)
(* arithmetic (fill-orders/orderFiller.js, fetch-orders/orderFetcher.js,   *)
(* post-order/oddsUtils.js) and the flows that compose, sign and submit    *)
(* orders, fills and cancellations.                                        *)
(*                                                                         *)
(* Number representations.  TLC's integers are 32 bits wide, the program's *)
(* are not, so the model carries its own numbers:                          *)
(*   - a JavaScript BigInt is a record [neg, mag]; mag is a natural number *)
(*     written as a sequence of limbs in base 10^4, least significant      *)
(*     first, without leading zero limbs (<<>> is 0, <<0, 0, 0, 0, 2500>>  *)
(*     is 25 * 10^16);                                                     *)
(*   - a JavaScript Number is an IEEE-754 double, a record [neg, m, e]     *)
(*     whose value is m * 2^e with 2^52 <= m < 2^53 (m = <<>> is zero);    *)
(*     every operation rounds the exact result to nearest, ties to even;   *)
(*   - a decimal string is a record [neg, digits, scale]: the digits of    *)
(*     the numeral as a natural number and the count of digits after the   *)
(*     point ("0.5025" is [digits |-> 5025, scale |-> 4]).                 *)
(***************************************************************************)
EXTENDS Integers, Sequences, FiniteSets, TLC

(***************************************************************************)
(* Natural numbers of arbitrary size (the magnitudes of BigInt values and  *)
(* the significands of doubles).                                           *)
(***************************************************************************)
R == 10 ^ 4

RECURSIVE NStrip(_)
NStrip(a) ==
  IF a = <<>> THEN <<>>
  ELSE IF a[Len(a)] = 0 THEN NStrip(SubSeq(a, 1, Len(a) - 1))
  ELSE a

RECURSIVE NFromInt(_)
NFromInt(n) == IF n = 0 THEN <<>> ELSE <<n % R>> \o NFromInt(n \div R)

RECURSIVE NCmpFrom(_, _, _)
NCmpFrom(a, b, i) ==
  IF i = 0 THEN 0
  ELSE IF a[i] < b[i] THEN -1
  ELSE IF a[i] > b[i] THEN 1
  ELSE NCmpFrom(a, b, i - 1)

NCmp(a, b) ==
  IF Len(a) < Len(b) THEN -1
  ELSE IF Len(a) > Len(b) THEN 1
  ELSE NCmpFrom(a, b, Len(a))

NLe(a, b) == NCmp(a, b) <= 0
NLt(a, b) == NCmp(a, b) < 0

RECURSIVE NAddC(_, _, _)
NAddC(a, b, c) ==
  IF a = <<>> /\ b = <<>> THEN (IF c = 0 THEN <<>> ELSE <<c>>)
  ELSE LET addA == IF a = <<>> THEN 0 ELSE Head(a)
           addB == IF b = <<>> THEN 0 ELSE Head(b)
           addSum == addA + addB + c
       IN  <<addSum % R>> \o NAddC(IF a = <<>> THEN <<>> ELSE Tail(a),
                              IF b = <<>> THEN <<>> ELSE Tail(b),
                              addSum \div R)

NAdd(a, b) == NAddC(a, b, 0)

RECURSIVE NSubB(_, _, _)
NSubB(a, b, c) ==
  IF a = <<>> THEN <<>>
  ELSE LET subB == IF b = <<>> THEN 0 ELSE Head(b)
           subDiff == Head(a) - subB - c
       IN  <<IF subDiff < 0 THEN subDiff + R ELSE subDiff>>
           \o NSubB(Tail(a), IF b = <<>> THEN <<>> ELSE Tail(b),
                    IF subDiff < 0 THEN 1 ELSE 0)

\* a - b for a >= b
NSub(a, b) == NStrip(NSubB(a, b, 0))

RECURSIVE NMulSmallC(_, _, _)
NMulSmallC(a, k, c) ==
  IF a = <<>> THEN NFromInt(c)
  ELSE LET mulProd == Head(a) * k + c
       IN  <<mulProd % R>> \o NMulSmallC(Tail(a), k, mulProd \div R)

\* a * k for 0 <= k <= 10^5
NMulSmall(a, k) == IF k = 0 THEN <<>> ELSE NMulSmallC(a, k, 0)

NShift(a) == IF a = <<>> THEN <<>> ELSE <<0>> \o a

RECURSIVE NMul(_, _)
NMul(a, b) ==
  IF a = <<>> \/ b = <<>> THEN <<>>
  ELSE NAdd(NMulSmall(a, Head(b)), NShift(NMul(a, Tail(b))))

\* the largest d in lo..hi with d * b <= rem (lo * b <= rem is given)
RECURSIVE NQDigit(_, _, _, _)
NQDigit(rem, b, lo, hi) ==
  IF lo = hi THEN lo
  ELSE LET qMid == (lo + hi + 1) \div 2
       IN  IF NLe(NMulSmall(b, qMid), rem)
           THEN NQDigit(rem, b, qMid, hi)
           ELSE NQDigit(rem, b, lo, qMid - 1)

RECURSIVE NDivStep(_, _, _, _, _)
NDivStep(a, i, b, q, rem) ==
  IF i = 0 THEN [q |-> NStrip(q), r |-> rem]
  ELSE LET divCur   == NStrip(<<a[i]>> \o rem)
           divDigit == IF NLt(divCur, b) THEN 0 ELSE NQDigit(divCur, b, 1, R - 1)
       IN  IF divDigit = 0 THEN NDivStep(a, i - 1, b, <<0>> \o q, divCur)
           ELSE NDivStep(a, i - 1, b, <<divDigit>> \o q,
                         NSub(divCur, NMulSmall(b, divDigit)))

\* quotient and remainder of a by b, b # 0
NDivMod(a, b) == NDivStep(a, Len(a), b, <<>>, <<>>)
NDiv(a, b) == NDivMod(a, b).q
NMod(a, b) == NDivMod(a, b).r

RECURSIVE NPow10(_)
NPow10(k) == IF k < 4 THEN NFromInt(10 ^ k) ELSE NShift(NPow10(k - 4))

RECURSIVE NPow2(_)
NPow2(k) == IF k < 13 THEN NFromInt(2 ^ k) ELSE NMulSmall(NPow2(k - 13), 8192)

\* the number of decimal digits of a (0 for 0)
NDigits(a) ==
  IF a = <<>> THEN 0
  ELSE LET topLimb == a[Len(a)]
       IN  4 * (Len(a) - 1)
           + (IF topLimb >= 1000 THEN 4 ELSE IF topLimb >= 100 THEN 3 ELSE IF topLimb >= 10 THEN 2 ELSE 1)

\* a small natural number back as a TLC integer (a < 2 * 10^9)
RECURSIVE NToInt(_)
NToInt(a) == IF a = <<>> THEN 0 ELSE Head(a) + R * NToInt(Tail(a))

(***************************************************************************)
(* JavaScript BigInt: [neg, mag].  Zero is never negative.                 *)
(***************************************************************************)
ZMake(neg, mag) == [neg |-> neg /\ mag # <<>>, mag |-> mag]
ZNat(mag) == ZMake(FALSE, mag)
ZInt(n) == IF n < 0 THEN ZMake(TRUE, NFromInt(0 - n)) ELSE ZMake(FALSE, NFromInt(n))
ZZero == ZNat(<<>>)
ZIsZero(a) == a.mag = <<>>
ZNegate(a) == ZMake(~a.neg, a.mag)

ZAdd(a, b) ==
  IF a.neg = b.neg THEN ZMake(a.neg, NAdd(a.mag, b.mag))
  ELSE IF NLe(b.mag, a.mag) THEN ZMake(a.neg, NSub(a.mag, b.mag))
  ELSE ZMake(b.neg, NSub(b.mag, a.mag))

ZSub(a, b) == ZAdd(a, ZNegate(b))
ZMul(a, b) == ZMake(a.neg # b.neg, NMul(a.mag, b.mag))

\* BigInt "/" truncates toward zero; "%" takes the sign of the dividend.
\* Both throw a RangeError when the divisor is 0n; callers test ZIsZero.
ZDiv(a, b) == ZMake(a.neg # b.neg, NDiv(a.mag, b.mag))
ZRem(a, b) == ZMake(a.neg, NMod(a.mag, b.mag))

ZLt(a, b) ==
  IF a.neg /\ ~b.neg THEN TRUE
  ELSE IF ~a.neg /\ b.neg THEN FALSE
  ELSE IF a.neg THEN NLt(b.mag, a.mag)
  ELSE NLt(a.mag, b.mag)

ZLe(a, b) == a = b \/ ZLt(a, b)

(***************************************************************************)
(* JavaScript Number: IEEE-754 binary64, [neg, m, e] with value m * 2^e.   *)
(* DRound is the rounding every arithmetic operation and every string to   *)
(* number conversion applies to its exact result num / den: to nearest,    *)
(* ties to even.  The values of this program stay far inside the normal    *)
(* range, so subnormals, infinities and NaN results do not arise; NaN as   *)
(* the result of parsing text that is no number is the value DNaN.         *)
(***************************************************************************)
DZero == [neg |-> FALSE, m |-> <<>>, e |-> 0]
DNaN == [neg |-> FALSE, m |-> <<>>, e |-> 1]
DIsNaN(x) == x = DNaN

DScale(num, den, e) ==
  IF e >= 0 THEN [n |-> num, d |-> NMul(den, NPow2(e))]
  ELSE [n |-> NMul(num, NPow2(0 - e)), d |-> den]

\* the exponent e with 2^52 <= num / (den * 2^e) < 2^53, searched upward
\* from an e that is not above it
RECURSIVE DNormExp(_, _, _)
DNormExp(num, den, e) ==
  LET normScaled == DScale(num, den, e)
  IN  IF NLt(normScaled.n, NMul(normScaled.d, NPow2(53))) THEN e ELSE DNormExp(num, den, e + 1)

\* a lower estimate of log2(num / den) from the decimal lengths
DLog2Low(num, den) ==
  LET lenDiff == NDigits(num) - NDigits(den) - 1
  IN  IF lenDiff >= 0 THEN (lenDiff * 3321) \div 1000
      ELSE 0 - (((0 - lenDiff) * 3322 + 999) \div 1000)

DRound(neg, num, den) ==
  IF num = <<>> THEN DZero
  ELSE LET Packed(rndExp, rndMant) ==
             IF rndMant = NPow2(53) THEN [neg |-> neg, m |-> NPow2(52), e |-> rndExp + 1]
             ELSE [neg |-> neg, m |-> rndMant, e |-> rndExp]
           Nearest(rndQR, rndCmp) ==
             IF rndCmp > 0 \/ (rndCmp = 0 /\ Head(rndQR.q) % 2 = 1)
             THEN NAdd(rndQR.q, <<1>>) ELSE rndQR.q
           Halved(rndScaled, rndQR) ==
             Nearest(rndQR, NCmp(NMulSmall(rndQR.r, 2), rndScaled.d))
           Divided(rndExp, rndScaled) ==
             Packed(rndExp, Halved(rndScaled, NDivMod(rndScaled.n, rndScaled.d)))
           Scaled(rndExp) == Divided(rndExp, DScale(num, den, rndExp))
       IN  Scaled(DNormExp(num, den, DLog2Low(num, den) - 52))

\* the exact value of a double as a fraction num / den
DNum(x) == IF x.e >= 0 THEN NMul(x.m, NPow2(x.e)) ELSE x.m
DDen(x) == IF x.e >= 0 THEN <<1>> ELSE NPow2(0 - x.e)

DFromNat(mag) == DRound(FALSE, mag, <<1>>)
DFromBigInt(z) == DRound(z.neg, z.mag, <<1>>)
DMul(x, y) == DRound(x.neg # y.neg, NMul(DNum(x), DNum(y)), NMul(DDen(x), DDen(y)))
DDiv(x, y) == DRound(x.neg # y.neg, NMul(DNum(x), DDen(y)), NMul(DDen(x), DNum(y)))

DSub(x, y) ==
  LET Exact(subExact) == DRound(subExact.neg, subExact.mag, NMul(DDen(x), DDen(y)))
  IN  Exact(ZSub(ZMake(x.neg, NMul(DNum(x), DDen(y))),
                 ZMake(y.neg, NMul(DNum(y), DDen(x)))))

\* x <= 0 and x > 0 as the program tests them (NaN compares false)
DLeZero(x) == ~DIsNaN(x) /\ (x.neg \/ x.m = <<>>)
DGtZero(x) == ~DIsNaN(x) /\ ~x.neg /\ x.m # <<>>
\* x >= 1
DGeOne(x) == ~DIsNaN(x) /\ ~x.neg /\ x.m # <<>> /\ NLe(DDen(x), DNum(x))

\* Math.round: the nearest integer, a tie going toward +Infinity
MathRound(x) ==
  LET Up(mrQR) == ZMake(TRUE, IF mrQR.r = <<>> THEN mrQR.q ELSE NAdd(mrQR.q, <<1>>))
      Halves(mrNum2, mrDen, mrDen2) ==
        IF ~x.neg THEN ZNat(NDiv(NAdd(mrNum2, mrDen), mrDen2))
        ELSE IF NLe(mrNum2, mrDen) THEN ZZero
        ELSE Up(NDivMod(NSub(mrNum2, mrDen), mrDen2))
  IN  Halves(NMulSmall(DNum(x), 2), DDen(x), NMulSmall(DDen(x), 2))

\* Math.floor for x >= 0
MathFloor(x) == ZNat(NDiv(DNum(x), DDen(x)))

(***************************************************************************)
(* Decimal strings.  kind "dec" is an optional sign, digits and an         *)
(* optional point; "exp" is a numeral in exponent notation ("1e-7",        *)
(* "1e+21"); "text" is a string that is no number.                         *)
(***************************************************************************)
Dec(digits, scale) == [kind |-> "dec", neg |-> FALSE, digits |-> digits, scale |-> scale]
DecInt(n) == Dec(NFromInt(n), 0)
ExpStr == [kind |-> "exp", neg |-> FALSE, digits |-> <<>>, scale |-> 0]
TextStr == [kind |-> "text", neg |-> FALSE, digits |-> <<>>, scale |-> 0]

\* results of calls that may throw
Ok(v) == [ok |-> TRUE, val |-> v, err |-> ""]
Throw(e) == [ok |-> FALSE, val |-> <<>>, err |-> e]

\* drop zeros at the end of the fraction, keeping min digits after the point
RECURSIVE TrimFraction(_, _)
TrimFraction(str, min) ==
  IF str.scale > min /\ NMod(str.digits, <<10>>) = <<>>
  THEN TrimFraction([str EXCEPT !.digits = NDiv(str.digits, <<10>>),
                                !.scale = str.scale - 1], min)
  ELSE str

\* parseFloat / Number(string): text that is no number gives NaN
parseFloat(str) ==
  IF str.kind = "text" THEN DNaN
  ELSE DRound(str.neg, str.digits, NPow10(str.scale))

\* v < 10^k for v = n / d
DBelowPow10(n, d, k) ==
  IF k >= 0 THEN NLt(n, NMul(d, NPow10(k))) ELSE NLt(NMul(n, NPow10(0 - k)), d)

\* s * 10^j as a decimal string
DecTimesPow10(neg, s, j) ==
  IF j >= 0 THEN [kind |-> "dec", neg |-> neg, digits |-> NMul(s, NPow10(j)), scale |-> 0]
  ELSE TrimFraction([kind |-> "dec", neg |-> neg, digits |-> s, scale |-> 0 - j], 0)

\* the decimal cand * 10^(-shift) converts back to x
RoundTrips(x, cand, shift) == parseFloat(DecTimesPow10(x.neg, cand, 0 - shift)) = x

\* the shortest digit string s (k digits, at most 17) with s * 10^(-j)
\* converting back to x, the one nearest to x if there are two; n10 is the
\* position of the first digit of x
RECURSIVE ShortestDigits(_, _, _)
ShortestDigits(x, n10, k) ==
  LET Tried(sdFirst, sdSecond) ==
        IF k >= 17 \/ RoundTrips(x, sdFirst, k - n10) THEN [s |-> sdFirst, j |-> k - n10]
        ELSE IF RoundTrips(x, sdSecond, k - n10) THEN [s |-> sdSecond, j |-> k - n10]
        ELSE ShortestDigits(x, n10, k + 1)
      Ordered(sdLo, sdHi, sdCmp) ==
        IF sdCmp < 0 \/ (sdCmp = 0 /\ Head(sdLo) % 2 = 0)
        THEN Tried(sdLo, sdHi) ELSE Tried(sdHi, sdLo)
      Split(sdQR, sdDiv) ==
        Ordered(sdQR.q, NAdd(sdQR.q, <<1>>), NCmp(NMulSmall(sdQR.r, 2), sdDiv))
      Over(sdTop, sdDiv) == Split(NDivMod(sdTop, sdDiv), sdDiv)
  IN  IF k - n10 >= 0 THEN Over(NMul(DNum(x), NPow10(k - n10)), DDen(x))
      ELSE Over(DNum(x), NMul(DDen(x), NPow10(n10 - k)))

\* Number.prototype.toString: the shortest digits that convert back to x,
\* written without exponent for 1e-7 < x < 1e21 and in exponent notation
\* otherwise
NumberToString(x) ==
  IF DIsNaN(x) THEN TextStr
  ELSE IF x.m = <<>> THEN DecInt(0)
  ELSE LET Notation(tsOut) ==
             IF NDigits(tsOut.digits) - tsOut.scale > 21
                \/ NDigits(tsOut.digits) - tsOut.scale <= -6 THEN ExpStr ELSE tsOut
           Digits(tsDigits) == Notation(DecTimesPow10(x.neg, tsDigits.s, 0 - tsDigits.j))
           InLen(tsLen) == IF DBelowPow10(DNum(x), DDen(x), tsLen) THEN tsLen ELSE tsLen + 1
       IN  Digits(ShortestDigits(x, InLen(NDigits(DNum(x)) - NDigits(DDen(x))), 1))

\* BigInt.prototype.toString
BigIntToString(z) == [kind |-> "dec", neg |-> z.neg, digits |-> z.mag, scale |-> 0]

\* ethers.getBigInt / ethers.toBigInt of a string: an integer numeral or a throw
getBigInt(str) ==
  IF str.kind = "dec" /\ str.scale = 0 THEN Ok(ZMake(str.neg, str.digits))
  ELSE Throw("invalid BigNumberish string")

\* ethers.parseUnits(value, decimals): value * 10^decimals as a BigInt; throws
\* on a string that is not of the form -?[0-9]*.?[0-9]* and on non-zero digits
\* beyond the decimals-th place
parseUnits(str, decimals) ==
  IF str.kind # "dec" THEN Throw("invalid FixedNumber string value")
  ELSE IF str.scale <= decimals
       THEN Ok(ZMake(str.neg, NMul(str.digits, NPow10(decimals - str.scale))))
  ELSE LET puQR == NDivMod(str.digits, NPow10(str.scale - decimals))
       IN  IF puQR.r # <<>> THEN Throw("too many decimals for format")
           ELSE Ok(ZMake(str.neg, puQR.q))

\* ethers.formatUnits(value, decimals): value / 10^decimals written out,
\* zeros at the end of the fraction dropped but one digit kept
formatUnits(z, decimals) ==
  TrimFraction([kind |-> "dec", neg |-> z.neg, digits |-> z.mag, scale |-> decimals], 1)

(***************************************************************************)
(* fill-orders/orderFiller.js                                              *)
(***************************************************************************)
USDC_DECIMALS == 6

\* const base = ethers.getBigInt('100000000000000000000')
base == ZNat(NPow10(20))

\* A variant that divides by the scale instead of its complement to the odds.
calculateFillAmountNoComplement(takerBetAmountBN, percentageOddsBN) ==
  Ok(ZDiv(ZMul(takerBetAmountBN, percentageOddsBN), base))

\* lines 50-51: (takerBetAmountBN * percentageOddsBN) / (base - percentageOddsBN);
\* BigInt division by 0n throws a RangeError
calculateFillAmountBN(takerBetAmountBN, percentageOddsBN) ==
  LET denominator == ZSub(base, percentageOddsBN)
  IN  IF ZIsZero(denominator) THEN Throw("RangeError: Division by zero")
      ELSE Ok(ZDiv(ZMul(takerBetAmountBN, percentageOddsBN), denominator))

calculateFillAmount(takerBetAmount, percentageOdds) ==
  LET stakeBN == parseUnits(takerBetAmount, USDC_DECIMALS)
      oddsBN == getBigInt(percentageOdds)
  IN  IF ~stakeBN.ok THEN stakeBN
      ELSE IF ~oddsBN.ok THEN oddsBN
      ELSE LET fillBN == calculateFillAmountBN(stakeBN.val, oddsBN.val)
           IN  IF ~fillBN.ok THEN fillBN
               ELSE Ok(BigIntToString(fillBN.val))

(***************************************************************************)
(* fetch-orders/orderFetcher.js                                            *)
(***************************************************************************)
\* Math.pow(10, 20)
MathPow10_20 == DFromNat(NPow10(20))

\* A variant that returns the total stake the remaining amount pairs with,
\* forgetting to take the maker's part off.
calculateRemainingNoSubtract(totalBetSize, fillAmount, percentageOdds) ==
  LET Paired(nsRemaining) ==
        IF DLeZero(nsRemaining) THEN DZero
        ELSE DDiv(DMul(nsRemaining, MathPow10_20), parseFloat(percentageOdds))
  IN  Paired(DSub(parseFloat(totalBetSize), parseFloat(fillAmount)))

\* lines 106-108 the remaining maker amount, lines 110-112 the early return
\* of 0, lines 115-116 the formula
calculateRemainingTakerSpace(totalBetSize, fillAmount, percentageOdds) ==
  LET Space(remainingMakerAmount) ==
        IF DLeZero(remainingMakerAmount) THEN DZero
        ELSE DSub(DDiv(DMul(remainingMakerAmount, MathPow10_20), parseFloat(percentageOdds)),
                  remainingMakerAmount)
  IN  Space(DSub(parseFloat(totalBetSize), parseFloat(fillAmount)))

(***************************************************************************)
(* post-order/oddsUtils.js                                                 *)
(***************************************************************************)
ODDS_LADDER_STEP_SIZE == 25

\* A variant that takes the remainder in floating point: Number(odds) % 25e16
checkOddsLadderValidFloat(odds) ==
  LET oddsF == parseFloat(odds)
  IN  Ok(NMod(DNum(oddsF), NMul(NMulSmall(NPow10(16), ODDS_LADDER_STEP_SIZE), DDen(oddsF))) = <<>>)

checkOddsLadderValid(odds) ==
  LET oddsBI == getBigInt(odds)
      stepSize == ZMul(parseUnits(DecInt(1), 16).val, ZInt(ODDS_LADDER_STEP_SIZE))
  IN  IF ~oddsBI.ok THEN oddsBI
      ELSE Ok(ZRem(oddsBI.val, stepSize) = ZZero)

\* 0.25 and 100 as doubles
D025 == parseFloat(Dec(<<25>>, 2))
D100 == DFromNat(<<100>>)

\* A variant that rounds the percentage to two decimals instead of to the step.
roundToTwoDecimals(impliedOdds) ==
  LET tdWritten(tdUnits) == IF ~tdUnits.ok THEN tdUnits ELSE Ok(BigIntToString(tdUnits.val))
      Rounded(tdPercentage) == DDiv(DFromBigInt(MathRound(DMul(tdPercentage, D100))), D100)
  IN  tdWritten(parseUnits(NumberToString(DDiv(Rounded(DMul(impliedOdds, D100)), D100)), 20))

\* line 28 percentage, line 31 roundedPercentage = Math.round(percentage /
\* 0.25) * 0.25, line 34 roundedImplied, line 37
\* parseUnits(roundedImplied.toString(), 20).toString()
roundToNearestStep(impliedOdds) ==
  LET Written(units) == IF ~units.ok THEN units ELSE Ok(BigIntToString(units.val))
      roundedImplied(stepped) == DDiv(stepped, D100)
      roundedPercentage(percentage) ==
        DMul(DFromBigInt(MathRound(DDiv(percentage, D025))), D025)
  IN  Written(parseUnits(NumberToString(
        roundedImplied(roundedPercentage(DMul(impliedOdds, D100)))), 20))

apiOddsToReadable(apiOdds) ==
  parseFloat(formatUnits(getBigInt(apiOdds).val, 20))

(***************************************************************************)
(* Inputs.  The odds an order can carry and the amounts a user can type,   *)
(* small sets that hold the cases of interest: both ends of (0, 10^20),    *)
(* ladder and off-ladder values, amounts of one unit and amounts whose     *)
(* product with the odds needs more than 64 bits.                          *)
(***************************************************************************)
MaxLadder == 4
MaxStake == 6
MaxTotal == 5
MaxHalfStep == 30
MaxLadderPoint == 400

E16 == NPow10(16)
E20 == NPow10(20)
LadderStep == NMulSmall(E16, 25)

ValidOdds ==
  {NMulSmall(LadderStep, j) : j \in 1..MaxLadder}
  \cup {NSub(E20, NMulSmall(LadderStep, j)) : j \in 1..MaxLadder}
  \cup {NFromInt(j) : j \in 1..MaxLadder}
  \cup {NSub(E20, NFromInt(j)) : j \in 1..MaxLadder}
  \cup {NMulSmall(E16, 5000), NMulSmall(E16, 2500), NMulSmall(E16, 3000),
        NAdd(NMulSmall(E16, 5025), <<1>>), NMulSmall(E16, 5001)}

InvalidOdds ==
  {ZZero, ZNat(E20), ZNat(NMulSmall(E20, 2))}
  \cup {ZNat(NAdd(E20, NMulSmall(LadderStep, j))) : j \in 1..MaxLadder}
  \cup {ZMake(TRUE, NMulSmall(LadderStep, j)) : j \in 1..MaxLadder}

OddsStrings ==
  {BigIntToString(ZNat(p)) : p \in ValidOdds} \cup {BigIntToString(z) : z \in InvalidOdds}

\* the odds the ladder test is put to: the above and the multiples of 10^16,
\* of which every 25th is on the ladder
LadderTestStrings ==
  OddsStrings \cup {BigIntToString(ZNat(NMulSmall(E16, k))) : k \in 0..(25 * MaxLadder)}

\* what a user types as an amount of USDC: whole amounts, millionths, very
\* large amounts, a ten-millionth
StakeStrings ==
  {Dec(NFromInt(i), 6) : i \in 0..MaxStake}
  \cup {DecInt(i) : i \in 1..MaxStake}
  \cup {Dec(NMul(NFromInt(i), NPow10(12)), 0) : i \in 1..MaxStake}
  \cup {DecInt(10), Dec(<<10>>, 6), Dec(<<5, 2>>, 1), Dec(<<1>>, 7)}

\* amounts in an order as the API sends them: integers of smallest units
TotalStrings ==
  {DecInt(i) : i \in 1..MaxTotal}
  \cup {DecInt(97), DecInt(100), DecInt(40), Dec(<<5462, 5816, 3691, 39>>, 0)}

FilledStrings == {DecInt(0), DecInt(40), DecInt(100)}

\* what a user types as implied odds: the ladder points and the midpoints
\* between them, their neighbours, and the values of the documentation
ImpliedStrings ==
  {Dec(NFromInt(125 * i + d), 5) : i \in 1..MaxHalfStep, d \in {-1, 0, 1}}
  \cup {Dec(NFromInt(25 * j), 4) : j \in 0..MaxLadderPoint}
  \cup {DecInt(0), Dec(<<1>>, 3), Dec(<<999>>, 3), Dec(<<5025>>, 4),
        Dec(NFromInt(50333), 5), Dec(<<5>>, 1)}

(***************************************************************************)
(* State.                                                                  *)
(*   call, ret   the call under way (function and arguments) and what it   *)
(*               returned or threw                                         *)
(*   env         process.env.PRIVATE_KEY ("" when it is not set)           *)
(*   pc, loc     the position of the running flow and its local variables  *)
(*   salts       the values drawn from randomBytes(32), in order           *)
(*   signed      the signatures produced, in order                         *)
(*   net         the HTTP requests issued, in order                        *)
(***************************************************************************)
VARIABLES call, ret, env, pc, loc, salts, signed, net

vars == <<call, ret, env, pc, loc, salts, signed, net>>
flowVars == <<env, pc, loc, salts, signed, net>>

Pending == [ok |-> FALSE, val |-> <<>>, err |-> "pending"]
Returned == ret.err # "pending"
NoCall == [fn |-> "none", args |-> <<>>]

\* a pure function runs outside of any flow
NoFlow ==
  /\ env = ""
  /\ pc = "idle"
  /\ loc = <<>>
  /\ salts = <<>>
  /\ signed = <<>>
  /\ net = <<>>

InitFillAmount ==
  /\ \E s \in StakeStrings, p \in OddsStrings :
       call = [fn |-> "calculateFillAmount", args |-> <<s, p>>]
  /\ ret = Pending
  /\ NoFlow

ApplyCalculateFillAmount ==
  /\ call.fn = "calculateFillAmount"
  /\ ~Returned
  /\ ret' = calculateFillAmount(call.args[1], call.args[2])
  /\ UNCHANGED <<call, flowVars>>

InitRemainingSpace ==
  /\ \E t \in TotalStrings, f \in FilledStrings, p \in ValidOdds :
       call = [fn |-> "calculateRemainingTakerSpace",
               args |-> <<t, f, BigIntToString(ZNat(p))>>]
  /\ ret = Pending
  /\ NoFlow

ApplyCalculateRemainingTakerSpace ==
  /\ call.fn = "calculateRemainingTakerSpace"
  /\ ~Returned
  /\ ret' = Ok(calculateRemainingTakerSpace(call.args[1], call.args[2], call.args[3]))
  /\ UNCHANGED <<call, flowVars>>

InitLadderValid ==
  /\ \E p \in LadderTestStrings : call = [fn |-> "checkOddsLadderValid", args |-> <<p>>]
  /\ ret = Pending
  /\ NoFlow

ApplyCheckOddsLadderValid ==
  /\ call.fn = "checkOddsLadderValid"
  /\ ~Returned
  /\ ret' = checkOddsLadderValid(call.args[1])
  /\ UNCHANGED <<call, flowVars>>

InitRoundToStep ==
  /\ \E x \in ImpliedStrings : call = [fn |-> "roundToNearestStep", args |-> <<x>>]
  /\ ret = Pending
  /\ NoFlow

ApplyRoundToNearestStep ==
  /\ call.fn = "roundToNearestStep"
  /\ ~Returned
  /\ ret' = roundToNearestStep(parseFloat(call.args[1]))
  /\ UNCHANGED <<call, flowVars>>

SpecFillAmount == InitFillAmount /\ [][ApplyCalculateFillAmount]_vars
SpecRemainingSpace == InitRemainingSpace /\ [][ApplyCalculateRemainingTakerSpace]_vars
SpecLadderValid == InitLadderValid /\ [][ApplyCheckOddsLadderValid]_vars
SpecRoundToStep == InitRoundToStep /\ [][ApplyRoundToNearestStep]_vars

(***************************************************************************)
(* Keys, signatures and hashes.  A signature is the record of who signed   *)
(* what, a hash the record of what was hashed: equal exactly when the      *)
(* inputs are equal.                                                       *)
(***************************************************************************)
MaxOrders == 2
MaxSalt == 2
MaxTime == 2

\* the account the three programs name as maker and as taker
MAKER == "0xa6fa134f76496300419E6dbee487239F09d247aE"

\* what PRIVATE_KEY can hold: nothing, the key of that account, another key
PrivateKeys == {"keyOfA6fa", "keyOfOther"}
EnvValues == {""} \cup PrivateKeys

\* randomBytes(32) of crypto and of ethers: 256 bits of the system's entropy
\* source, here one of MaxSalt values.  Two draws of 256 bits agree with a
\* chance of 2^-256: the source is taken to deliver no value that it has
\* delivered before.
randomBytes(delivered) ==
  (1..MaxSalt) \ {delivered[i] : i \in 1..Len(delivered)}

\* new ethers.Wallet(privateKey).address
computeAddress(privateKey) ==
  IF privateKey = "keyOfA6fa" THEN MAKER ELSE "0xOtherAccount"

\* what ethers accepts for a uint256 field of typed data
IsUint256(str) ==
  /\ str.kind = "dec"
  /\ str.scale = 0
  /\ ~str.neg
  /\ NLt(str.digits, NPow2(256))

Caught(e) == [ok |-> TRUE, val |-> <<>>, err |-> e]

(***************************************************************************)
(* fill-orders/orderFiller.js and fill-orders/index.js                     *)
(***************************************************************************)
SX_BET_API_URL == "https://api.sx.bet"
EIP712_FILL_HASHER == "0x845a2Da2D70fEDe8474b1C8518200798c60aC364"
USDC_BASE_TOKEN == "0x6629Ce1Cf35Cc1329ebB4F63202F3f197b3F050B"
CHAIN_ID == 4162
DOMAIN_VERSION == "6.0"
ZeroAddress == "0x0000000000000000000000000000000000000000"
ZeroHash == "0x0000000000000000000000000000000000000000000000000000000000000000"

FillTypes ==
  [Details |-> << <<"action", "string">>, <<"market", "string">>, <<"betting", "string">>,
                  <<"stake", "string">>, <<"odds", "string">>, <<"returning", "string">>,
                  <<"fills", "FillObject">> >>,
   FillObject |-> << <<"orders", "Order[]">>, <<"makerSigs", "bytes[]">>,
                     <<"takerAmounts", "uint256[]">>, <<"fillSalt", "uint256">>,
                     <<"beneficiary", "address">>, <<"beneficiaryType", "uint8">>,
                     <<"cashOutTarget", "bytes32">> >>,
   Order |-> << <<"marketHash", "bytes32">>, <<"baseToken", "address">>,
                <<"totalBetSize", "uint256">>, <<"percentageOdds", "uint256">>,
                <<"expiry", "uint256">>, <<"salt", "uint256">>, <<"maker", "address">>,
                <<"executor", "address">>, <<"isMakerBettingOutcomeOne", "bool">> >>]

createFillOrderPayload(orders, takerAmounts, taker, fillSalt) ==
  [types |-> FillTypes,
   primaryType |-> "Details",
   domain |-> [name |-> "SX Bet", version |-> DOMAIN_VERSION, chainId |-> CHAIN_ID,
               verifyingContract |-> EIP712_FILL_HASHER],
   message |->
     [action |-> "N/A", market |-> "N/A", betting |-> "N/A", stake |-> "N/A",
      odds |-> "N/A", returning |-> "N/A",
      fills |->
        [makerSigs |-> [i \in 1..Len(orders) |-> orders[i].signature],
         orders |-> [i \in 1..Len(orders) |->
                       [marketHash |-> orders[i].marketHash,
                        baseToken |-> orders[i].baseToken,
                        totalBetSize |-> orders[i].totalBetSize,
                        percentageOdds |-> orders[i].percentageOdds,
                        expiry |-> orders[i].expiry,
                        salt |-> orders[i].salt,
                        maker |-> orders[i].maker,
                        executor |-> orders[i].executor,
                        isMakerBettingOutcomeOne |-> orders[i].isMakerBettingOutcomeOne]],
         takerAmounts |-> takerAmounts,
         fillSalt |-> fillSalt,
         beneficiary |-> ZeroAddress,
         beneficiaryType |-> 0,
         cashOutTarget |-> ZeroHash]]]

\* wallet.signTypedData: encoding the message fails on a value that is no
\* uint256, a negative amount for one
signTypedData(privateKey, domain, types, message) ==
  IF /\ \A i \in 1..Len(message.fills.takerAmounts) : IsUint256(message.fills.takerAmounts[i])
     /\ \A i \in 1..Len(message.fills.orders) :
          /\ IsUint256(message.fills.orders[i].totalBetSize)
          /\ IsUint256(message.fills.orders[i].percentageOdds)
  THEN Ok([signer |-> computeAddress(privateKey), domain |-> domain, types |-> types,
           message |-> message])
  ELSE Throw("value out-of-bounds")

(***************************************************************************)
(* The fill flow: main of fill-orders/index.js, and fillOrder, which main  *)
(* calls and which the module exports.                                     *)
(***************************************************************************)
\* the odds of the orders the API hands out or a caller passes in
FlowOdds ==
  {BigIntToString(ZNat(NMulSmall(E16, 5000))), BigIntToString(ZZero),
   BigIntToString(ZNat(E20)), BigIntToString(ZNat(NMulSmall(E20, 2)))}

HalfOdds == BigIntToString(ZNat(NMulSmall(E16, 5000)))

ApiOrder(hash, percentageOdds) ==
  [orderHash |-> hash,
   marketHash |-> "0xmarket1",
   baseToken |-> USDC_BASE_TOKEN,
   totalBetSize |-> Dec(NPow10(8), 0),
   percentageOdds |-> percentageOdds,
   expiry |-> Dec(<<6800, 900, 22>>, 0),
   salt |-> DecInt(7),
   maker |-> "0xmaker1",
   executor |-> "0xexecutor1",
   isMakerBettingOutcomeOne |-> TRUE,
   signature |-> <<"makerSig", hash>>]

ApiOrders ==
  {ApiOrder("0xorder1", p) : p \in FlowOdds}
  \cup {ApiOrder("0xorder2", BigIntToString(ZNat(NMulSmall(E16, 5000))))}

\* the lists of orders handed out or passed in: any order first, 0xorder2
\* after it
OrderLists ==
  {<<>>} \cup
  {<<first>> \o [i \in 1..n |-> ApiOrder("0xorder2", HalfOdds)] :
     first \in ApiOrders, n \in 0..(MaxOrders - 1)}

TakerAmounts == {DecInt(0), Dec(NPow10(7), 0), [Dec(NMulSmall(NPow10(7), 2), 0) EXCEPT !.neg = TRUE]}
AmountLists == UNION {[1..n -> TakerAmounts] : n \in 0..MaxOrders}

\* what the stake prompt lets through: parseFloat(input) > 0
StakePrompts == {str \in StakeStrings : DGtZero(parseFloat(str))}

FillLocals ==
  [caller |-> "", activeOrders |-> <<>>, selectedOrder |-> <<>>, fillAmount |-> <<>>,
   orders |-> <<>>, takerAmounts |-> <<>>, fillSalt |-> <<>>, payload |-> <<>>,
   signature |-> <<>>]

InitFill ==
  /\ env \in EnvValues
  /\ \/ /\ call = [fn |-> "main", args |-> <<>>]
        /\ pc = "main"
        /\ loc = [FillLocals EXCEPT !.caller = "main"]
     \/ \E orders \in OrderLists, takerAmounts \in AmountLists :
          /\ call = [fn |-> "fillOrder", args |-> <<orders, takerAmounts>>]
          /\ pc = "fillOrder"
          /\ loc = [FillLocals EXCEPT !.caller = "caller", !.orders = orders,
                                      !.takerAmounts = takerAmounts]
  /\ ret = Pending
  /\ salts = <<>>
  /\ signed = <<>>
  /\ net = <<>>

\* an error leaves fillOrder (rethrown at line 196); main catches it at
\* line 105, logs it and ends normally
FillRejected(e) ==
  /\ pc' = "done"
  /\ ret' = IF loc.caller = "main" THEN Caught(e) ELSE Throw(e)

\* index.js lines 15-34 with getActiveOrdersForMaker
MainFetchOrders ==
  /\ pc = "main"
  /\ net' = Append(net, [method |-> "GET", url |-> <<SX_BET_API_URL, "/orders?maker=">>,
                         body |-> <<>>])
  /\ \/ /\ pc' = "done"
        /\ ret' = Caught("Failed to fetch orders")
        /\ UNCHANGED loc
     \/ \E activeOrders \in OrderLists :
          IF Len(activeOrders) = 0
          THEN pc' = "done" /\ ret' = Ok(<<>>) /\ UNCHANGED loc
          ELSE /\ pc' = "main:select"
               /\ loc' = [loc EXCEPT !.activeOrders = activeOrders]
               /\ UNCHANGED ret
  /\ UNCHANGED <<call, env, salts, signed>>

\* index.js lines 37-82: the order and the stake are chosen, the fill amount
\* is calculated
MainSelectOrder ==
  /\ pc = "main:select"
  /\ \E selectedOrderIndex \in 1..Len(loc.activeOrders), stakeAmount \in StakePrompts :
       LET chosen == loc.activeOrders[selectedOrderIndex]
           amount == calculateFillAmount(stakeAmount, chosen.percentageOdds)
       IN  IF amount.ok
           THEN /\ pc' = "main:confirm"
                /\ loc' = [loc EXCEPT !.selectedOrder = chosen, !.fillAmount = amount.val]
                /\ UNCHANGED ret
           ELSE /\ pc' = "done"
                /\ ret' = Caught(amount.err)
                /\ loc' = [loc EXCEPT !.selectedOrder = chosen]
  /\ UNCHANGED <<call, env, salts, signed, net>>

\* index.js lines 85-100
MainConfirmFill ==
  /\ pc = "main:confirm"
  /\ \E confirmFill \in BOOLEAN :
       IF confirmFill
       THEN /\ pc' = "fillOrder"
            /\ loc' = [loc EXCEPT !.orders = <<loc.selectedOrder>>,
                                  !.takerAmounts = <<loc.fillAmount>>]
            /\ UNCHANGED ret
       ELSE pc' = "done" /\ ret' = Ok(<<>>) /\ UNCHANGED loc
  /\ UNCHANGED <<call, env, salts, signed, net>>

\* A variant that writes a stake into the stake field of the message.
FillOrderCreatePayloadWithStake ==
  /\ pc = "fillOrder"
  /\ IF env = ""
     THEN FillRejected("Private key is not set in .env file") /\ UNCHANGED <<loc, salts>>
     ELSE \E drawn \in randomBytes(salts) :
            /\ salts' = Append(salts, drawn)
            /\ loc' = [loc EXCEPT !.fillSalt = DecInt(drawn),
                                  !.payload = [createFillOrderPayload(loc.orders,
                                                 loc.takerAmounts, MAKER, DecInt(drawn))
                                               EXCEPT !.message.stake = "10 USDC"]]
            /\ pc' = "fillOrder:sign"
            /\ UNCHANGED ret
  /\ UNCHANGED <<call, env, signed, net>>

\* A variant that draws one salt for the message and another for the request.
FillOrderCreatePayloadTwoSalts ==
  /\ pc = "fillOrder"
  /\ IF env = ""
     THEN FillRejected("Private key is not set in .env file") /\ UNCHANGED <<loc, salts>>
     ELSE \E drawn \in randomBytes(salts), other \in 1..MaxSalt :
            /\ drawn # other
            /\ salts' = salts \o <<other, drawn>>
            /\ loc' = [loc EXCEPT !.fillSalt = DecInt(drawn),
                                  !.payload = createFillOrderPayload(loc.orders, loc.takerAmounts,
                                                                     MAKER, DecInt(other))]
            /\ pc' = "fillOrder:sign"
            /\ UNCHANGED ret
  /\ UNCHANGED <<call, env, signed, net>>

\* A variant that draws a salt for the first fill only and uses it again for
\* the fills that follow.
FillOrderCreatePayloadKeptSalt ==
  /\ pc = "fillOrder"
  /\ IF env = ""
     THEN FillRejected("Private key is not set in .env file") /\ UNCHANGED <<loc, salts>>
     ELSE \E drawn \in (IF salts = <<>> THEN randomBytes(salts) ELSE {salts[1]}) :
            /\ salts' = Append(salts, drawn)
            /\ loc' = [loc EXCEPT !.fillSalt = DecInt(drawn),
                                  !.payload = createFillOrderPayload(loc.orders, loc.takerAmounts,
                                                                     MAKER, DecInt(drawn))]
            /\ pc' = "fillOrder:sign"
            /\ UNCHANGED ret
  /\ UNCHANGED <<call, env, signed, net>>

\* orderFiller.js lines 145-154: the key is looked up, the salt drawn and the
\* payload built
FillOrderCreatePayload ==
  /\ pc = "fillOrder"
  /\ IF env = ""
     THEN FillRejected("Private key is not set in .env file") /\ UNCHANGED <<loc, salts>>
     ELSE \E drawn \in randomBytes(salts) :
            /\ salts' = Append(salts, drawn)
            /\ loc' = [loc EXCEPT !.fillSalt = DecInt(drawn),
                                  !.payload = createFillOrderPayload(loc.orders, loc.takerAmounts,
                                                                     MAKER, DecInt(drawn))]
            /\ pc' = "fillOrder:sign"
            /\ UNCHANGED ret
  /\ UNCHANGED <<call, env, signed, net>>

\* orderFiller.js lines 157-161: the payload is signed; the call waits for
\* the signature
FillOrderSign ==
  /\ pc = "fillOrder:sign"
  /\ \E takerSig \in {signTypedData(env, loc.payload.domain, loc.payload.types,
                                     loc.payload.message)} :
       IF takerSig.ok
       THEN /\ signed' = Append(signed, takerSig.val)
            /\ loc' = [loc EXCEPT !.signature = takerSig.val]
            /\ pc' = "fillOrder:send"
            /\ UNCHANGED ret
       ELSE FillRejected(takerSig.err) /\ UNCHANGED <<loc, signed>>
  /\ UNCHANGED <<call, env, salts, net>>

\* A variant that keeps the salt in a variable of the module, which every
\* call overwrites, and reads it back when the request is put together.
FillOrderSendModuleSalt ==
  /\ pc = "fillOrder:send"
  /\ net' = Append(net,
       [method |-> "POST", url |-> <<SX_BET_API_URL, "/orders/fill">>,
        body |-> [orderHashes |-> [i \in 1..Len(loc.orders) |-> loc.orders[i].orderHash],
                  takerAmounts |-> loc.takerAmounts,
                  taker |-> MAKER,
                  takerSig |-> loc.signature,
                  fillSalt |-> DecInt(salts[Len(salts)]),
                  action |-> "N/A", market |-> "N/A", betting |-> "N/A",
                  stake |-> "N/A", odds |-> "N/A", returning |-> "N/A"]])
  /\ pc' = "fillOrder:response"
  /\ UNCHANGED <<call, ret, env, loc, salts, signed>>

\* orderFiller.js lines 164-185: the request is put together and sent; the
\* call waits for the answer
FillOrderSend ==
  /\ pc = "fillOrder:send"
  /\ net' = Append(net,
       [method |-> "POST", url |-> <<SX_BET_API_URL, "/orders/fill">>,
        body |-> [orderHashes |-> [i \in 1..Len(loc.orders) |-> loc.orders[i].orderHash],
                  takerAmounts |-> loc.takerAmounts,
                  taker |-> MAKER,
                  takerSig |-> loc.signature,
                  fillSalt |-> loc.fillSalt,
                  action |-> "N/A", market |-> "N/A", betting |-> "N/A",
                  stake |-> "N/A", odds |-> "N/A", returning |-> "N/A"]])
  /\ pc' = "fillOrder:response"
  /\ UNCHANGED <<call, ret, env, loc, salts, signed>>

\* orderFiller.js lines 187-193
FillOrderResponse ==
  /\ pc = "fillOrder:response"
  /\ \E status \in {"success", "failure"} :
       IF status = "success"
       THEN pc' = "done" /\ ret' = Ok(<<"fillHash">>)
       ELSE FillRejected("Fill failed")
  /\ UNCHANGED <<call, env, loc, salts, signed, net>>

NextFill ==
  \/ MainFetchOrders
  \/ MainSelectOrder
  \/ MainConfirmFill
  \/ FillOrderCreatePayload
  \/ FillOrderSign
  \/ FillOrderSend
  \/ FillOrderResponse

SpecFill == InitFill /\ [][NextFill]_vars

(***************************************************************************)
(* The post flow: postNewOrder of post-order/index.js and postOrder of     *)
(* post-order/orderPoster.js.                                              *)
(***************************************************************************)
EXECUTOR == "0x52adf738AAD93c31f798a30b2C74D658e1E9a562"
API_EXPIRY_SECONDS == 3600

\* expiry: 2209006800, "deprecated but required"
ORDER_EXPIRY == Dec(<<6800, 900, 22>>, 0)

\* what is typed at the prompts
MarketHashInputs == {"0xmarket1", "not a hash"}
BetSizeInputs == {DecInt(10), DecInt(0), Dec(<<1>>, 6), Dec(<<1>>, 7), Dec(<<5, 2>>, 1)}
ImpliedOddsInputs ==
  {DecInt(0), DecInt(1), Dec(<<1>>, 3), Dec(<<999>>, 3), Dec(<<5>>, 1), Dec(<<5025>>, 4),
   Dec(NFromInt(50333), 5), Dec(<<125>>, 5), Dec(<<3625>>, 5)}

IsBytes32(str) == str \in {"0xmarket1", "0xmarket2"}

OrderTypes ==
  <<"bytes32", "address", "uint256", "uint256", "uint256", "uint256", "address", "address",
    "bool">>

\* ethers.solidityPackedKeccak256(types, values)
solidityPackedKeccak256(types, values) ==
  IF IsBytes32(values[1]) THEN Ok([types |-> types, values |-> values])
  ELSE Throw("invalid BytesLike value")

\* A variant that leaves the side of the bet out of the preimage.
orderHashWithoutOutcome(order) ==
  solidityPackedKeccak256(SubSeq(OrderTypes, 1, 8),
    <<order.marketHash, order.baseToken, order.totalBetSize, order.percentageOdds,
      order.expiry, order.salt, order.maker, order.executor>>)

\* A variant that lists the executor before the maker.
orderHashExecutorFirst(order) ==
  solidityPackedKeccak256(OrderTypes,
    <<order.marketHash, order.baseToken, order.totalBetSize, order.percentageOdds,
      order.expiry, order.salt, order.executor, order.maker,
      order.isMakerBettingOutcomeOne>>)

\* orderPoster.js lines 49-72: the hash of the order
orderHashOf(order) ==
  solidityPackedKeccak256(OrderTypes,
    <<order.marketHash, order.baseToken, order.totalBetSize, order.percentageOdds,
      order.expiry, order.salt, order.maker, order.executor,
      order.isMakerBettingOutcomeOne>>)

\* wallet.signMessage(ethers.getBytes(orderHash))
signMessage(privateKey, digest) ==
  [signer |-> computeAddress(privateKey), message |-> digest]

PostLocals ==
  [marketHash |-> "", isMakerBettingOutcomeOne |-> FALSE, betSize |-> DZero,
   roundedOddsAPI |-> <<>>, roundedOddsReadable |-> DZero, order |-> <<>>,
   signature |-> <<>>]

InitPost ==
  /\ env \in EnvValues
  /\ call = [fn |-> "postNewOrder", args |-> <<>>]
  /\ pc = "postNewOrder"
  /\ loc = PostLocals
  /\ ret = Pending
  /\ salts = <<>>
  /\ signed = <<>>
  /\ net = <<>>

\* index.js lines 21-42: the prompts, their checks and the rounding
PostNewOrderInput ==
  /\ pc = "postNewOrder"
  /\ \E betSizeStr \in BetSizeInputs, impliedOddsStr \in ImpliedOddsInputs :
     \E betSize \in {parseFloat(betSizeStr)}, typedOdds \in {parseFloat(impliedOddsStr)} :
       IF DIsNaN(betSize) \/ DLeZero(betSize)
       THEN /\ pc' = "done"
            /\ ret' = Caught("Invalid bet size. Must be a positive number.")
            /\ UNCHANGED loc
       ELSE IF DIsNaN(typedOdds) \/ DLeZero(typedOdds) \/ DGeOne(typedOdds)
       THEN /\ pc' = "done"
            /\ ret' = Caught("Invalid implied odds. Must be between 0 and 1.")
            /\ UNCHANGED loc
       ELSE \E roundedOddsAPI \in {roundToNearestStep(typedOdds)} :
            IF ~roundedOddsAPI.ok
            THEN pc' = "done" /\ ret' = Caught(roundedOddsAPI.err) /\ UNCHANGED loc
            ELSE \E roundedOddsReadable \in {apiOddsToReadable(roundedOddsAPI.val)} :
                 \E marketHash \in MarketHashInputs, outcomeOne \in BOOLEAN :
                   /\ pc' = "postNewOrder:confirm"
                   /\ loc' = [loc EXCEPT !.marketHash = marketHash,
                                         !.isMakerBettingOutcomeOne = outcomeOne,
                                         !.betSize = betSize,
                                         !.roundedOddsAPI = roundedOddsAPI.val,
                                         !.roundedOddsReadable = roundedOddsReadable]
                   /\ UNCHANGED ret
  /\ UNCHANGED <<call, env, salts, signed, net>>

\* index.js lines 46-50: the user declines
PostNewOrderDecline ==
  /\ pc = "postNewOrder:confirm"
  /\ pc' = "done"
  /\ ret' = Ok(<<>>)
  /\ UNCHANGED <<call, env, loc, salts, signed, net>>

\* index.js lines 46-60 and orderPoster.js lines 25-81: the user confirms;
\* postOrder converts the amounts, composes the order, hashes it, looks the
\* key up and signs
PostOrderComposeAndSign ==
  /\ pc = "postNewOrder:confirm"
  /\ \E betUnits \in {parseUnits(NumberToString(loc.betSize), USDC_DECIMALS)} :
     \E oddsUnits \in {parseUnits(NumberToString(loc.roundedOddsReadable), 20)} :
     \E drawn \in randomBytes(salts), now \in 1..MaxTime :
       IF ~betUnits.ok
       THEN pc' = "done" /\ ret' = Caught(betUnits.err) /\ UNCHANGED <<loc, salts, signed>>
       ELSE IF ~oddsUnits.ok
       THEN pc' = "done" /\ ret' = Caught(oddsUnits.err) /\ UNCHANGED <<loc, salts, signed>>
       ELSE
         \E order \in {[marketHash |-> loc.marketHash,
                        maker |-> MAKER,
                        totalBetSize |-> BigIntToString(betUnits.val),
                        percentageOdds |-> BigIntToString(oddsUnits.val),
                        baseToken |-> USDC_BASE_TOKEN,
                        apiExpiry |-> now + API_EXPIRY_SECONDS,
                        expiry |-> ORDER_EXPIRY,
                        executor |-> EXECUTOR,
                        isMakerBettingOutcomeOne |-> loc.isMakerBettingOutcomeOne,
                        salt |-> drawn]} :
         \E orderHash \in {orderHashOf(order)} :
           /\ salts' = Append(salts, drawn)
           /\ IF ~orderHash.ok
              THEN /\ pc' = "done"
                   /\ ret' = Caught(orderHash.err)
                   /\ loc' = [loc EXCEPT !.order = order]
                   /\ UNCHANGED signed
              ELSE IF env = ""
              THEN /\ pc' = "done"
                   /\ ret' = Caught("PRIVATE_KEY not found in .env file")
                   /\ loc' = [loc EXCEPT !.order = order]
                   /\ UNCHANGED signed
              ELSE /\ pc' = "postOrder:signed"
                   /\ loc' = [loc EXCEPT !.order = order,
                                         !.signature = signMessage(env, orderHash.val)]
                   /\ signed' = Append(signed, signMessage(env, orderHash.val))
                   /\ UNCHANGED ret
  /\ UNCHANGED <<call, env, net>>

\* orderPoster.js lines 84-91
PostOrderSend ==
  /\ pc = "postOrder:signed"
  /\ net' = Append(net, [method |-> "POST", url |-> <<SX_BET_API_URL, "/orders/new">>,
                         body |-> [orders |-> <<[order |-> loc.order,
                                                 signature |-> loc.signature]>>]])
  /\ pc' = "postOrder:response"
  /\ UNCHANGED <<call, ret, env, loc, salts, signed>>

\* orderPoster.js lines 93-94 and index.js lines 62-63: whatever the API
\* answers is returned and printed
PostOrderResponse ==
  /\ pc = "postOrder:response"
  /\ \E status \in {"success", "failure"} :
       pc' = "done" /\ ret' = Ok(<<status>>)
  /\ UNCHANGED <<call, env, loc, salts, signed, net>>

NextPost ==
  \/ PostNewOrderInput
  \/ PostNewOrderDecline
  \/ PostOrderComposeAndSign
  \/ PostOrderSend
  \/ PostOrderResponse

SpecPost == InitPost /\ [][NextPost]_vars

(***************************************************************************)
(* The hash of postOrder on its own: two orders, the second the first with *)
(* some of its fields changed, are hashed as lines 49-72 hash an order.    *)
(***************************************************************************)
MaxChanged == 2

HashedFields ==
  {"marketHash", "baseToken", "totalBetSize", "percentageOdds", "expiry", "salt", "maker",
   "executor", "isMakerBettingOutcomeOne"}

SampleOrder(salt, outcomeOne) ==
  [marketHash |-> "0xmarket1",
   maker |-> MAKER,
   totalBetSize |-> Dec(NPow10(7), 0),
   percentageOdds |-> BigIntToString(ZNat(NMulSmall(E16, 5025))),
   baseToken |-> USDC_BASE_TOKEN,
   apiExpiry |-> 1 + API_EXPIRY_SECONDS,
   expiry |-> ORDER_EXPIRY,
   executor |-> EXECUTOR,
   isMakerBettingOutcomeOne |-> outcomeOne,
   salt |-> salt]

\* another value of the same type for a field of an order
OtherValue(order, field) ==
  CASE field = "marketHash" -> "0xmarket2"
    [] field = "maker" -> "0xOtherAccount"
    [] field = "totalBetSize" -> Dec(NMulSmall(NPow10(7), 2), 0)
    [] field = "percentageOdds" -> BigIntToString(ZNat(NMulSmall(E16, 5000)))
    [] field = "baseToken" -> ZeroAddress
    [] field = "apiExpiry" -> order.apiExpiry + 1
    [] field = "expiry" -> DecInt(1)
    [] field = "executor" -> ZeroAddress
    [] field = "isMakerBettingOutcomeOne" -> ~order.isMakerBettingOutcomeOne
    [] field = "salt" -> order.salt + 1

Changed(order, fields) ==
  [f \in DOMAIN order |-> IF f \in fields THEN OtherValue(order, f) ELSE order[f]]

InitOrderHash ==
  /\ \E drawn \in 1..MaxSalt, outcomeOne \in BOOLEAN :
     \E fields \in {fs \in SUBSET DOMAIN SampleOrder(drawn, outcomeOne) :
                      Cardinality(fs) <= MaxChanged} :
       call = [fn |-> "orderHash",
               args |-> <<SampleOrder(drawn, outcomeOne),
                          Changed(SampleOrder(drawn, outcomeOne), fields)>>]
  /\ ret = Pending
  /\ NoFlow

ApplyOrderHash ==
  /\ call.fn = "orderHash"
  /\ ~Returned
  /\ ret' = Ok(<<orderHashOf(call.args[1]), orderHashOf(call.args[2])>>)
  /\ UNCHANGED <<call, flowVars>>

SpecOrderHash == InitOrderHash /\ [][ApplyOrderHash]_vars

(***************************************************************************)
(* cancel-order/orderCanceller.js, and cancelOrder of the post-order       *)
(* index.js, which calls it with the one hash the user typed.              *)
(***************************************************************************)
CANCEL_DOMAIN_NAME == "CancelOrderV2SportX"
CANCEL_DOMAIN_VERSION == "1.0"
CHAIN_VERSION == "SXR"
API_ENDPOINT == "https://api.sx.bet/orders/cancel/v2"

CancelTypes ==
  [EIP712Domain |-> << <<"name", "string">>, <<"version", "string">>,
                       <<"chainId", "uint256">>, <<"salt", "bytes32">> >>,
   Details |-> << <<"orderHashes", "string[]">>, <<"timestamp", "uint256">> >>]

\* A variant whose domain carries a fixed salt, that of a contract, and not
\* the salt of the request.
getCancelPayloadFixedSalt(orderHashes, salt, timestamp) ==
  [types |-> CancelTypes,
   primaryType |-> "Details",
   domain |-> [name |-> CANCEL_DOMAIN_NAME, version |-> CANCEL_DOMAIN_VERSION,
               chainId |-> CHAIN_ID, salt |-> 0],
   message |-> [orderHashes |-> orderHashes, timestamp |-> timestamp]]

getCancelOrderEIP712Payload(orderHashes, salt, timestamp) ==
  [types |-> CancelTypes,
   primaryType |-> "Details",
   domain |-> [name |-> CANCEL_DOMAIN_NAME, version |-> CANCEL_DOMAIN_VERSION,
               chainId |-> CHAIN_ID, salt |-> salt],
   message |-> [orderHashes |-> orderHashes, timestamp |-> timestamp]]

\* signTypedData of @metamask/eth-sig-util, version V4: a string[] of any
\* length, the empty one included, is encoded and signed
signTypedDataV4(privateKey, data) ==
  [signer |-> computeAddress(privateKey), data |-> data]

\* String.prototype.trim on a line of input, a sequence of characters
RECURSIVE trimStart(_)
trimStart(str) ==
  IF str # <<>> /\ Head(str) = " " THEN trimStart(Tail(str)) ELSE str

RECURSIVE trimEnd(_)
trimEnd(str) ==
  IF str # <<>> /\ str[Len(str)] = " " THEN trimEnd(SubSeq(str, 1, Len(str) - 1)) ELSE str

trim(str) == trimEnd(trimStart(str))

\* what is typed at the order hash prompt
HashInputs ==
  {<<>>, <<" ">>, <<" ", " ">>, <<"0xorder1">>, <<" ", "0xorder1">>, <<"0xorder2", " ">>,
   <<" ", "0xorder2", " ">>}

\* what a caller passes to cancelOrders
HashLists == UNION {[1..n -> {<<"0xorder1">>, <<"0xorder2">>}] : n \in 0..MaxOrders}

CancelLocals ==
  [caller |-> "", orderHash |-> <<>>, orderHashes |-> <<>>, salt |-> 0, timestamp |-> 0,
   signature |-> <<>>]

InitCancel ==
  /\ env \in EnvValues
  /\ \/ /\ call = [fn |-> "cancelOrder", args |-> <<>>]
        /\ pc = "cancelOrder"
        /\ loc = [CancelLocals EXCEPT !.caller = "cancelOrder"]
     \/ \E orderHashes \in HashLists :
          /\ call = [fn |-> "cancelOrders", args |-> <<orderHashes>>]
          /\ pc = "cancelOrders"
          /\ loc = [CancelLocals EXCEPT !.caller = "caller", !.orderHashes = orderHashes]
  /\ ret = Pending
  /\ salts = <<>>
  /\ signed = <<>>
  /\ net = <<>>

\* an error leaves cancelOrders (rethrown at line 112); cancelOrder catches
\* it at line 93, logs it and ends normally
CancelRejected(e) ==
  /\ pc' = "done"
  /\ ret' = IF loc.caller = "cancelOrder" THEN Caught(e) ELSE Throw(e)

\* index.js lines 72-77: the hash is read and trimmed, an empty one refused
CancelOrderInput ==
  /\ pc = "cancelOrder"
  /\ \E orderHashInput \in HashInputs :
       IF trim(orderHashInput) = <<>>
       THEN pc' = "done" /\ ret' = Caught("Order hash is required.") /\ UNCHANGED loc
       ELSE /\ pc' = "cancelOrder:confirm"
            /\ loc' = [loc EXCEPT !.orderHash = trim(orderHashInput)]
            /\ UNCHANGED ret
  /\ UNCHANGED <<call, env, salts, signed, net>>

\* index.js lines 79-88: cancelOrders([orderHash]) once the user agrees
CancelOrderConfirm ==
  /\ pc = "cancelOrder:confirm"
  /\ \E confirmCancel \in BOOLEAN :
       IF confirmCancel
       THEN /\ pc' = "cancelOrders"
            /\ loc' = [loc EXCEPT !.orderHashes = <<loc.orderHash>>]
            /\ UNCHANGED ret
       ELSE pc' = "done" /\ ret' = Ok(<<>>) /\ UNCHANGED loc
  /\ UNCHANGED <<call, env, salts, signed, net>>

\* A variant that goes on without a key and sends the request unsigned.
CancelOrdersSendUnsigned ==
  /\ pc = "cancelOrders"
  /\ \E drawn \in randomBytes(salts), now \in 1..MaxTime :
     \E signature \in {IF env = "" THEN <<>>
                       ELSE signTypedDataV4(env,
                              getCancelOrderEIP712Payload(loc.orderHashes, drawn, now))} :
       /\ salts' = Append(salts, drawn)
       /\ signed' = IF env = "" THEN signed ELSE Append(signed, signature)
       /\ net' = Append(net,
            [method |-> "POST", url |-> <<API_ENDPOINT, "?chainVersion=", CHAIN_VERSION>>,
             body |-> [signature |-> signature,
                       orderHashes |-> loc.orderHashes,
                       salt |-> drawn,
                       maker |-> MAKER,
                       timestamp |-> now]])
       /\ loc' = [loc EXCEPT !.salt = drawn, !.timestamp = now, !.signature = signature]
       /\ pc' = "cancelOrders:response"
       /\ UNCHANGED ret
  /\ UNCHANGED <<call, env>>

\* orderCanceller.js lines 61-106: the key is looked up, the salt drawn, the
\* time read, the payload built and signed, the request sent
CancelOrdersSignAndSend ==
  /\ pc = "cancelOrders"
  /\ IF env = ""
     THEN CancelRejected("PRIVATE_KEY not found in .env file")
          /\ UNCHANGED <<loc, salts, signed, net>>
     ELSE \E drawn \in randomBytes(salts), now \in 1..MaxTime :
          \E signature \in {signTypedDataV4(env,
                              getCancelOrderEIP712Payload(loc.orderHashes, drawn, now))} :
            /\ salts' = Append(salts, drawn)
            /\ signed' = Append(signed, signature)
            /\ net' = Append(net,
                 [method |-> "POST", url |-> <<API_ENDPOINT, "?chainVersion=", CHAIN_VERSION>>,
                  body |-> [signature |-> signature,
                            orderHashes |-> loc.orderHashes,
                            salt |-> drawn,
                            maker |-> MAKER,
                            timestamp |-> now]])
            /\ loc' = [loc EXCEPT !.salt = drawn, !.timestamp = now, !.signature = signature]
            /\ pc' = "cancelOrders:response"
            /\ UNCHANGED ret
  /\ UNCHANGED <<call, env>>

\* orderCanceller.js lines 108-109: whatever the API answers is returned
CancelOrdersResponse ==
  /\ pc = "cancelOrders:response"
  /\ \E status \in {"success", "failure"} :
       pc' = "done" /\ ret' = Ok(<<status>>)
  /\ UNCHANGED <<call, env, loc, salts, signed, net>>

NextCancel ==
  \/ CancelOrderInput
  \/ CancelOrderConfirm
  \/ CancelOrdersSignAndSend
  \/ CancelOrdersResponse

SpecCancel == InitCancel /\ [][NextCancel]_vars

(***************************************************************************)
(* The three programs side by side: a behaviour is a run of one of them.   *)
(***************************************************************************)
InitFlows == InitFill \/ InitPost \/ InitCancel
NextFlows == NextFill \/ NextPost \/ NextCancel
SpecFlows == InitFlows /\ [][NextFlows]_vars

(***************************************************************************)
(* A program that imports the three modules and, with a key in             *)
(* PRIVATE_KEY, calls postOrder, fillOrder and cancelOrders one after the  *)
(* other, any number of times in any order, with arguments that their      *)
(* checks accept.  The records of the draws, the signatures and the        *)
(* requests run through all the calls.                                     *)
(***************************************************************************)
InitRequests ==
  /\ env \in PrivateKeys
  /\ call = NoCall
  /\ ret = Pending
  /\ pc = "idle"
  /\ loc = <<>>
  /\ salts = <<>>
  /\ signed = <<>>
  /\ net = <<>>

\* no call is under way and the entropy source has values left
Callable ==
  /\ pc \in {"idle", "done"}
  /\ randomBytes(salts) # {}

\* postOrder(marketHash, isMakerBettingOutcomeOne, betSizeUSDC, impliedOdds),
\* orderPoster.js line 22, with the values index.js lines 38-53 hands it
CallPostOrder ==
  /\ Callable
  /\ \E outcomeOne \in {TRUE} :
     \E roundedOddsAPI \in {roundToNearestStep(parseFloat(Dec(<<5>>, 1)))} :
       /\ call' = [fn |-> "postOrder", args |-> <<"0xmarket1", outcomeOne>>]
       /\ loc' = [PostLocals EXCEPT
                    !.marketHash = "0xmarket1",
                    !.isMakerBettingOutcomeOne = outcomeOne,
                    !.betSize = parseFloat(DecInt(10)),
                    !.roundedOddsAPI = roundedOddsAPI.val,
                    !.roundedOddsReadable = apiOddsToReadable(roundedOddsAPI.val)]
  /\ pc' = "postNewOrder:confirm"
  /\ ret' = Pending
  /\ UNCHANGED <<env, salts, signed, net>>

\* fillOrder(orders, takerAmounts), orderFiller.js line 143
CallFillOrder ==
  /\ Callable
  /\ \E orders \in {<<ApiOrder("0xorder1", HalfOdds), ApiOrder("0xorder2", HalfOdds)>>} :
     \E takerAmounts \in {[i \in 1..Len(orders) |-> Dec(NPow10(7), 0)]} :
       /\ call' = [fn |-> "fillOrder", args |-> <<orders, takerAmounts>>]
       /\ loc' = [FillLocals EXCEPT !.caller = "caller", !.orders = orders,
                                    !.takerAmounts = takerAmounts]
  /\ pc' = "fillOrder"
  /\ ret' = Pending
  /\ UNCHANGED <<env, salts, signed, net>>

\* cancelOrders(orderHashes), orderCanceller.js line 59
CallCancelOrders ==
  /\ Callable
  /\ \E orderHashes \in {<<(<<"0xorder1">>), (<<"0xorder2">>)>>} :
       /\ call' = [fn |-> "cancelOrders", args |-> <<orderHashes>>]
       /\ loc' = [CancelLocals EXCEPT !.caller = "caller", !.orderHashes = orderHashes]
  /\ pc' = "cancelOrders"
  /\ ret' = Pending
  /\ UNCHANGED <<env, salts, signed, net>>

NextRequests ==
  \/ CallPostOrder
  \/ PostOrderComposeAndSign
  \/ PostOrderSend
  \/ PostOrderResponse
  \/ CallFillOrder
  \/ FillOrderCreatePayload
  \/ FillOrderSign
  \/ FillOrderSend
  \/ FillOrderResponse
  \/ CallCancelOrders
  \/ CancelOrdersSignAndSend
  \/ CancelOrdersResponse

SpecRequests == InitRequests /\ [][NextRequests]_vars

(***************************************************************************)
(* Several calls of fillOrder and cancelOrders under way at once, as under *)
(* Promise.all.  One call runs at a time, from one await to the next;      *)
(* call, ret, pc and loc are those of the call that runs, and the calls    *)
(* that wait are kept, with their own pc and locals, in call.waiting.  The  *)
(* calls are followed up to the request each of them sends: what the API   *)
(* answers comes after the payloads and has no part in them.               *)
(***************************************************************************)
MaxTasks == 2

TaskHash(task) == IF task % 2 = 1 THEN "0xorder1" ELSE "0xorder2"

\* a fill and a cancellation of the order of the task, about to begin
TasksMade(task) ==
  {[fn |-> "fillOrder",
    args |-> <<(<<ApiOrder(TaskHash(task), HalfOdds)>>),
               (<<Dec(NMulSmall(NPow10(7), task), 0)>>)>>,
    pc |-> "fillOrder",
    loc |-> [FillLocals EXCEPT !.caller = "caller",
                               !.orders = <<ApiOrder(TaskHash(task), HalfOdds)>>,
                               !.takerAmounts = <<Dec(NMulSmall(NPow10(7), task), 0)>>],
    ret |-> Pending],
   [fn |-> "cancelOrders",
    args |-> <<(<<(<<TaskHash(task)>>)>>)>>,
    pc |-> "cancelOrders",
    loc |-> [CancelLocals EXCEPT !.caller = "caller",
                                 !.orderHashes = <<(<<TaskHash(task)>>)>>],
    ret |-> Pending]}

\* what the tasks call: the first a fill, the second either, the others a
\* cancellation
TaskFns(task) ==
  IF task = 1 THEN {"fillOrder"}
  ELSE IF task = 2 THEN {"fillOrder", "cancelOrders"}
  ELSE {"cancelOrders"}

\* the call the task makes: a fill or a cancellation of the order of the task
TaskCalls(task) ==
  {made \in TasksMade(task) : made.fn \in TaskFns(task)}

InitConcurrent ==
  /\ env \in PrivateKeys
  /\ \E first \in TaskCalls(1) :
       /\ call \in {[fn |-> first.fn, args |-> first.args, task |-> 1, waiting |-> others] :
                      others \in {w \in [2..MaxTasks -> UNION {TaskCalls(t) : t \in 2..MaxTasks}] :
                                     \A t \in 2..MaxTasks : w[t] \in TaskCalls(t)}}
       /\ pc = first.pc
       /\ loc = first.loc
       /\ ret = first.ret
  /\ salts = <<>>
  /\ signed = <<>>
  /\ net = <<>>

\* the call that runs is not between two statements that run without a
\* wait: fillOrder builds the payload and starts signing it in one go
\* (orderFiller.js lines 154-157)
AtAwait == pc # "fillOrder:sign"

\* the event loop goes on with another call: orderFiller.js lines 157 and
\* 179, orderCanceller.js line 101
Resume(task) ==
  /\ AtAwait
  /\ task \in DOMAIN call.waiting
  /\ call' = [fn |-> call.waiting[task].fn,
              args |-> call.waiting[task].args,
              task |-> task,
              waiting |-> [t \in (DOMAIN call.waiting \ {task}) \cup {call.task} |->
                            IF t = call.task
                            THEN [fn |-> call.fn, args |-> call.args, pc |-> pc,
                                  loc |-> loc, ret |-> ret]
                            ELSE call.waiting[t]]]
  /\ pc' = call.waiting[task].pc
  /\ loc' = call.waiting[task].loc
  /\ ret' = call.waiting[task].ret
  /\ UNCHANGED <<env, salts, signed, net>>

NextConcurrent ==
  \/ \E task \in 1..MaxTasks : Resume(task)
  \/ FillOrderCreatePayload
  \/ FillOrderSign
  \/ FillOrderSend
  \/ CancelOrdersSignAndSend

SpecConcurrent == InitConcurrent /\ [][NextConcurrent]_vars

(***************************************************************************)
(* Signing and recovering.  A signature is the pair of the account of the  *)
(* key and of what was signed: recovering gives that account back when it  *)
(* is handed what was signed, and an account of nobody otherwise.  The key *)
(* is a text with or without the prefix 0x, a sequence of its parts.       *)
(***************************************************************************)
\* A variant that hands the text of the key with its prefix to Buffer.from,
\* which stops at the x and gives an empty key.
bufferWithPrefix(privateKey) ==
  IF Head(privateKey) = "0x" THEN "" ELSE privateKey[Len(privateKey)]

\* orderCanceller.js lines 67-70: the prefix is cut off, the digits decoded
bufferPrivateKey(privateKey) ==
  IF Head(privateKey) = "0x" THEN SubSeq(privateKey, 2, Len(privateKey))[1]
  ELSE privateKey[1]

\* new ethers.Wallet(privateKey), orderFiller.js line 151: ethers puts the
\* prefix before a key that lacks it
Wallet(privateKey) ==
  IF Head(privateKey) = "0x" THEN privateKey[2] ELSE (<<"0x">> \o privateKey)[2]

\* ethers.verifyTypedData(domain, types, message, signature)
verifyTypedData(domain, types, message, signature) ==
  IF signature.domain = domain /\ signature.types = types /\ signature.message = message
  THEN signature.signer
  ELSE "0xNobody"

\* recoverTypedSignature({data, signature, version}) of @metamask/eth-sig-util
recoverTypedSignature(data, signature) ==
  IF signature.data = data THEN signature.signer ELSE "0xNobody"

KeyTexts == {<<k>> : k \in PrivateKeys} \cup {<<"0x", k>> : k \in PrivateKeys}

InitRoundTrip ==
  /\ \E privateKey \in KeyTexts :
       \/ \E orders \in OrderLists, fillSalt \in 1..MaxSalt :
            call = [fn |-> "signFill",
                    args |-> <<privateKey, orders,
                               [i \in 1..Len(orders) |-> Dec(NPow10(7), 0)], fillSalt>>]
       \/ \E orderHashes \in HashLists, salt \in 1..MaxSalt, timestamp \in 1..MaxTime :
            call = [fn |-> "signCancel", args |-> <<privateKey, orderHashes, salt, timestamp>>]
  /\ ret = Pending
  /\ NoFlow

\* orderFiller.js lines 151-161: the wallet of the key signs the payload
ApplySignFill ==
  /\ call.fn = "signFill"
  /\ ~Returned
  /\ \E payload \in {createFillOrderPayload(call.args[2], call.args[3], MAKER,
                                             DecInt(call.args[4]))} :
       ret' = signTypedData(Wallet(call.args[1]), payload.domain, payload.types,
                            payload.message)
  /\ UNCHANGED <<call, flowVars>>

\* orderCanceller.js lines 67-86: the key is decoded and signs the payload
ApplySignCancel ==
  /\ call.fn = "signCancel"
  /\ ~Returned
  /\ ret' = Ok(signTypedDataV4(bufferPrivateKey(call.args[1]),
                getCancelOrderEIP712Payload(call.args[2], call.args[3], call.args[4])))
  /\ UNCHANGED <<call, flowVars>>

NextRoundTrip == ApplySignFill \/ ApplySignCancel

SpecRoundTrip == InitRoundTrip /\ [][NextRoundTrip]_vars

(***************************************************************************)
(* fetchAllTrades of fetch-trades/tradeFetcher.js (the file is printed in   *)
(* README.md from line 80 on), with fetchTrades, which it calls for every  *)
(* page.  An object of parameters is a function from    *)
(* its keys to their values; the key the API hands out for the next page   *)
(* is a string, "" for none (null, undefined and "" are false alike).      *)
(* Here net keeps the last MaxPages exchanges with the API, request and    *)
(* answer, and loc.fetched, which is no variable of the code, the trades   *)
(* of all the pages that were received, in the order of their arrival.     *)
(***************************************************************************)
MaxRecords == 3
MaxPages == 2

TRADES_URL == "https://api.sx.bet/trades"

\* what the caller passes
TradeParams == {("bettor" :> "0xbettor"), ("chainVersion" :> "SXR" @@ "bettor" :> "0xbettor")}

\* what the API answers: a failure, or a page of trades, empty or not, with
\* or without the key of a next page
TradeAnswers ==
  {[ok |-> FALSE, trades |-> <<>>, nextKey |-> ""]} \cup
  {[ok |-> TRUE, trades |-> page, nextKey |-> key] :
     page \in {<<>>, <<"trade1">>, <<"trade2", "trade3">>}, key \in {"", "key1", "key2"}}

\* the last MaxPages entries of the log
LastPages(log) ==
  IF Len(log) <= MaxPages THEN log ELSE SubSeq(log, Len(log) - MaxPages + 1, Len(log))

\* Math.min(100, maxRecords)
MathMin100(maxRecords) == IF maxRecords < 100 THEN maxRecords ELSE 100

TradeLocals ==
  [params |-> <<>>, maxRecords |-> 0, allTrades |-> <<>>, nextKey |-> "", pageSize |-> 0,
   queryParams |-> <<>>, fetched |-> <<>>]

InitTrades ==
  /\ env = ""
  /\ \E params \in TradeParams, maxRecords \in 0..MaxRecords :
       /\ call = [fn |-> "fetchAllTrades", args |-> <<params, maxRecords>>]
       /\ loc = [TradeLocals EXCEPT !.params = params, !.maxRecords = maxRecords]
  /\ pc = "fetchAllTrades"
  /\ ret = Pending
  /\ salts = <<>>
  /\ signed = <<>>
  /\ net = <<>>

\* README.md lines 132-139: the locals, and the copy of the parameters with
\* the size of a page
FetchAllTradesBegin ==
  /\ pc = "fetchAllTrades"
  /\ loc' = [loc EXCEPT !.allTrades = <<>>,
                        !.nextKey = "",
                        !.pageSize = MathMin100(loc.maxRecords),
                        !.queryParams = ("pageSize" :> MathMin100(loc.maxRecords)) @@ loc.params]
  /\ pc' = "fetchAllTrades:page"
  /\ UNCHANGED <<call, ret, env, salts, signed, net>>

\* A variant that returns all it has collected, without cutting it down.
FetchAllTradesPageUncut ==
  /\ pc = "fetchAllTrades:page"
  /\ \E queryParams \in {IF loc.nextKey # ""
                          THEN ("paginationKey" :> loc.nextKey) @@ loc.queryParams
                          ELSE loc.queryParams} :
     \E answer \in TradeAnswers :
       /\ net' = LastPages(Append(net, [method |-> "GET", url |-> <<TRADES_URL, queryParams>>,
                                        body |-> <<>>, answer |-> answer]))
       /\ IF ~answer.ok
          THEN /\ pc' = "done"
               /\ ret' = Throw("API request failed")
               /\ loc' = [loc EXCEPT !.queryParams = queryParams]
          ELSE /\ loc' = [loc EXCEPT !.queryParams = queryParams,
                                     !.allTrades = loc.allTrades \o answer.trades,
                                     !.nextKey = answer.nextKey,
                                     !.fetched = loc.fetched \o answer.trades]
               /\ IF answer.nextKey # "" /\ Len(loc.allTrades \o answer.trades) < loc.maxRecords
                  THEN pc' = "fetchAllTrades:page" /\ UNCHANGED ret
                  ELSE pc' = "done" /\ ret' = Ok(loc.allTrades \o answer.trades)
  /\ UNCHANGED <<call, env, salts, signed>>

\* README.md lines 141-164, with fetchTrades (lines 87-124): one turn of the
\* loop, from the key put into the query to the test that ends the turn,
\* and the return or the throw that follows the last turn
FetchAllTradesPage ==
  /\ pc = "fetchAllTrades:page"
  /\ \E queryParams \in {IF loc.nextKey # ""
                          THEN ("paginationKey" :> loc.nextKey) @@ loc.queryParams
                          ELSE loc.queryParams} :
     \E answer \in TradeAnswers :
       /\ net' = LastPages(Append(net, [method |-> "GET", url |-> <<TRADES_URL, queryParams>>,
                                        body |-> <<>>, answer |-> answer]))
       /\ IF ~answer.ok
          THEN /\ pc' = "done"
               /\ ret' = Throw("API request failed")
               /\ loc' = [loc EXCEPT !.queryParams = queryParams]
          ELSE IF Len(loc.allTrades \o answer.trades) >= loc.maxRecords
          THEN /\ pc' = "done"
               /\ ret' = Ok(SubSeq(loc.allTrades \o answer.trades, 1, loc.maxRecords))
               /\ loc' = [loc EXCEPT !.queryParams = queryParams,
                                     !.allTrades = SubSeq(loc.allTrades \o answer.trades, 1,
                                                          loc.maxRecords),
                                     !.nextKey = answer.nextKey,
                                     !.fetched = loc.fetched \o answer.trades]
          ELSE /\ loc' = [loc EXCEPT !.queryParams = queryParams,
                                     !.allTrades = loc.allTrades \o answer.trades,
                                     !.nextKey = answer.nextKey,
                                     !.fetched = loc.fetched \o answer.trades]
               /\ IF answer.nextKey # ""
                  THEN pc' = "fetchAllTrades:page" /\ UNCHANGED ret
                  ELSE pc' = "done" /\ ret' = Ok(loc.allTrades \o answer.trades)
  /\ UNCHANGED <<call, env, salts, signed>>

NextTrades == FetchAllTradesBegin \/ FetchAllTradesPage

SpecTrades == InitTrades /\ [][NextTrades]_vars

\* every request is answered in the end, and the code goes on when it is
SpecTradesAnswered == SpecTrades /\ WF_vars(NextTrades)

(***************************************************************************)
(* websocket/websocket.js and websocket/index.js.  The variables of the    *)
(* module are realtime (the number of the client, 0 for null),             *)
(* activeChannel (a channel of a client, <<>> for null) and isSubscribed;  *)
(* with them loc holds the Ably side: the clients made so far, each        *)
(* "connected", "failed" or "closed", and the channels that have a         *)
(* listener.  A call of the module runs from its beginning to its end      *)
(* before the next one starts.                                             *)
(***************************************************************************)
MaxClients == 3

MarketHashes == {"0xmarket1", "0xmarket2"}

WsLocals ==
  [realtime |-> 0, activeChannel |-> <<>>, isSubscribed |-> FALSE, clients |-> <<>>,
   listeners |-> {}]

\* websocket.js lines 43-70: a new client takes the place of the one in
\* realtime, which is left as it is; the call throws when the connection
\* fails
initialize(ws, connects) ==
  [ok |-> connects,
   ws |-> [ws EXCEPT !.realtime = Len(ws.clients) + 1,
                     !.clients = Append(ws.clients,
                                        IF connects THEN "connected" ELSE "failed")]]

\* websocket.js lines 123-139: activeChannel.unsubscribe() takes the
\* listeners off the channel; when it throws, before or after it has taken
\* them off, the variables stay as they are and false is returned
unsubscribeFromOrderBook(ws, unsubscribes) ==
  IF ws.activeChannel = <<>> THEN [val |-> FALSE, ws |-> ws]
  ELSE IF unsubscribes = "done"
  THEN [val |-> TRUE,
        ws |-> [ws EXCEPT !.listeners = ws.listeners \ {ws.activeChannel},
                          !.activeChannel = <<>>,
                          !.isSubscribed = FALSE]]
  ELSE IF unsubscribes = "throws after"
  THEN [val |-> FALSE, ws |-> [ws EXCEPT !.listeners = ws.listeners \ {ws.activeChannel}]]
  ELSE [val |-> FALSE, ws |-> ws]

\* websocket.js lines 102-116: the channel is taken from the client and
\* subscribed to; realtime.channels.get or activeChannel.subscribe can
\* throw, and false is returned then
subscribeChannel(ws, marketHash, subscribes) ==
  IF subscribes = "get throws" THEN [val |-> FALSE, ws |-> ws]
  ELSE IF subscribes = "subscribe throws"
  THEN [val |-> FALSE,
        ws |-> [ws EXCEPT !.activeChannel = [client |-> ws.realtime, name |-> marketHash]]]
  ELSE [val |-> TRUE,
        ws |-> [ws EXCEPT !.activeChannel = [client |-> ws.realtime, name |-> marketHash],
                          !.listeners = ws.listeners \cup
                                          {[client |-> ws.realtime, name |-> marketHash]},
                          !.isSubscribed = TRUE]]

\* websocket.js lines 92-117: initialize when there is no client, leave the
\* channel there is, whatever comes of it, and subscribe to the new one
subscribeToOrderBook(ws, marketHash, connects, unsubscribes, subscribes) ==
  IF ws.realtime = 0 /\ ~connects
  THEN [ok |-> FALSE, val |-> FALSE, ws |-> initialize(ws, connects).ws]
  ELSE [ok |-> TRUE,
        val |-> subscribeChannel(
                  unsubscribeFromOrderBook(
                    IF ws.realtime = 0 THEN initialize(ws, connects).ws ELSE ws,
                    unsubscribes).ws,
                  marketHash, subscribes).val,
        ws |-> subscribeChannel(
                 unsubscribeFromOrderBook(
                   IF ws.realtime = 0 THEN initialize(ws, connects).ws ELSE ws,
                   unsubscribes).ws,
                 marketHash, subscribes).ws]

\* websocket.js lines 145-147
isSubscribedToChannel(ws) == ws.isSubscribed

\* websocket.js lines 152-160
closeConnection(ws) ==
  IF ws.realtime = 0 THEN ws
  ELSE [ws EXCEPT !.clients = [ws.clients EXCEPT ![ws.realtime] = "closed"],
                  !.realtime = 0,
                  !.activeChannel = <<>>,
                  !.isSubscribed = FALSE]

UnsubscribeOutcomes == {"done", "throws before", "throws after"}
SubscribeOutcomes == {"done", "get throws", "subscribe throws"}

InitWebsocket ==
  /\ env = ""
  /\ call = NoCall
  /\ ret = Pending
  /\ pc = "menu"
  /\ loc = WsLocals
  /\ salts = <<>>
  /\ signed = <<>>
  /\ net = <<>>

\* a call of initialize
CallInitialize ==
  /\ pc = "menu"
  /\ Len(loc.clients) < MaxClients
  /\ \E connects \in BOOLEAN :
       /\ call' = [fn |-> "initialize", args |-> <<>>]
       /\ loc' = initialize(loc, connects).ws
       /\ ret' = IF connects THEN Ok(<<>>) ELSE Throw("Connection failed")
  /\ UNCHANGED <<env, pc, salts, signed, net>>

\* a call of subscribeToOrderBook
CallSubscribeToOrderBook ==
  /\ pc = "menu"
  /\ Len(loc.clients) < MaxClients
  /\ \E marketHash \in MarketHashes, connects \in BOOLEAN,
        unsubscribes \in UnsubscribeOutcomes, subscribes \in SubscribeOutcomes :
       /\ call' = [fn |-> "subscribeToOrderBook", args |-> <<marketHash>>]
       /\ loc' = subscribeToOrderBook(loc, marketHash, connects, unsubscribes, subscribes).ws
       /\ ret' = IF subscribeToOrderBook(loc, marketHash, connects, unsubscribes, subscribes).ok
                 THEN Ok(subscribeToOrderBook(loc, marketHash, connects, unsubscribes,
                                              subscribes).val)
                 ELSE Throw("Connection failed")
  /\ UNCHANGED <<env, pc, salts, signed, net>>

\* a call of unsubscribeFromOrderBook
CallUnsubscribeFromOrderBook ==
  /\ pc = "menu"
  /\ \E unsubscribes \in UnsubscribeOutcomes :
       /\ call' = [fn |-> "unsubscribeFromOrderBook", args |-> <<>>]
       /\ loc' = unsubscribeFromOrderBook(loc, unsubscribes).ws
       /\ ret' = Ok(unsubscribeFromOrderBook(loc, unsubscribes).val)
  /\ UNCHANGED <<env, pc, salts, signed, net>>

\* a call of closeConnection
CallCloseConnection ==
  /\ pc = "menu"
  /\ call' = [fn |-> "closeConnection", args |-> <<>>]
  /\ loc' = closeConnection(loc)
  /\ ret' = Ok(<<>>)
  /\ UNCHANGED <<env, pc, salts, signed, net>>

NextWebsocket ==
  \/ CallInitialize
  \/ CallSubscribeToOrderBook
  \/ CallUnsubscribeFromOrderBook
  \/ CallCloseConnection

SpecWebsocket == InitWebsocket /\ [][NextWebsocket]_vars

\* index.js lines 66-96: option 1 of the menu; without a market hash
\* nothing is done, with one initialize is called and then
\* subscribeToOrderBook, and what they throw is printed
HandleSubscribe ==
  /\ pc = "menu"
  /\ Len(loc.clients) < MaxClients
  /\ \E marketHash \in MarketHashes \cup {""}, connects \in BOOLEAN,
        unsubscribes \in UnsubscribeOutcomes, subscribes \in SubscribeOutcomes :
       /\ call' = [fn |-> "handleSubscribe", args |-> <<marketHash>>]
       /\ IF marketHash = ""
          THEN loc' = loc /\ ret' = Caught("Market hash is required.")
          ELSE IF ~connects
          THEN loc' = initialize(loc, connects).ws /\ ret' = Caught("Connection failed")
          ELSE /\ loc' = subscribeToOrderBook(initialize(loc, connects).ws, marketHash,
                                              connects, unsubscribes, subscribes).ws
               /\ ret' = Ok(subscribeToOrderBook(initialize(loc, connects).ws, marketHash,
                                                 connects, unsubscribes, subscribes).val)
  /\ UNCHANGED <<env, pc, salts, signed, net>>

\* index.js lines 101-124: option 2 of the menu
HandleUnsubscribe ==
  /\ pc = "menu"
  /\ \E unsubscribes \in UnsubscribeOutcomes :
       /\ call' = [fn |-> "handleUnsubscribe", args |-> <<>>]
       /\ IF ~isSubscribedToChannel(loc)
          THEN loc' = loc /\ ret' = Caught("Not currently subscribed to any channel.")
          ELSE /\ loc' = unsubscribeFromOrderBook(loc, unsubscribes).ws
               /\ ret' = Ok(unsubscribeFromOrderBook(loc, unsubscribes).val)
  /\ UNCHANGED <<env, pc, salts, signed, net>>

\* index.js lines 129-139: option 3 of the menu
CheckStatus ==
  /\ pc = "menu"
  /\ call' = [fn |-> "checkStatus", args |-> <<>>]
  /\ ret' = Ok(isSubscribedToChannel(loc))
  /\ UNCHANGED <<env, pc, loc, salts, signed, net>>

\* index.js lines 144-150: option 4 of the menu
ExitApplication ==
  /\ pc = "menu"
  /\ call' = [fn |-> "exitApplication", args |-> <<>>]
  /\ loc' = closeConnection(loc)
  /\ ret' = Ok(<<>>)
  /\ pc' = "exited"
  /\ UNCHANGED <<env, salts, signed, net>>

NextMenu ==
  \/ HandleSubscribe
  \/ HandleUnsubscribe
  \/ CheckStatus
  \/ ExitApplication

SpecMenu == InitWebsocket /\ [][NextMenu]_vars

(***************************************************************************)
(* toDecimalOdds of fetch-orders/orderFetcher.js (impliedToDecimalOdds of  *)
(* oddsUtils.js has the same body): 1 / impliedOdds on Numbers.  A Number  *)
(* divided by zero is an infinity, which no throw accompanies.             *)
(***************************************************************************)
DInfinity == [neg |-> FALSE, m |-> <<>>, e |-> 2]

toDecimalOdds(impliedOdds) ==
  IF DIsNaN(impliedOdds) THEN DNaN
  ELSE IF impliedOdds.m = <<>> THEN DInfinity
  ELSE DDiv(DFromNat(<<1>>), impliedOdds)

\* the implied odds handed to it: those a user can type, their negatives
DecimalOddsInputs ==
  ImpliedStrings \cup {[x EXCEPT !.neg = TRUE] : x \in {y \in ImpliedStrings : y.digits # <<>>}}

InitDecimalOdds ==
  /\ \E x \in DecimalOddsInputs : call = [fn |-> "toDecimalOdds", args |-> <<x>>]
  /\ ret = Pending
  /\ NoFlow

ApplyToDecimalOdds ==
  /\ call.fn = "toDecimalOdds"
  /\ ~Returned
  /\ ret' = Ok(toDecimalOdds(parseFloat(call.args[1])))
  /\ UNCHANGED <<call, flowVars>>

SpecDecimalOdds == InitDecimalOdds /\ [][ApplyToDecimalOdds]_vars

(***************************************************************************)
(* Properties of the odds arithmetic.                                      *)
(***************************************************************************)
\* the integer a string of digits without fraction denotes
IntOf(str) == TrimFraction(str, 0).digits

FillCall == call.fn = "calculateFillAmount" /\ Returned
FillStake == parseUnits(call.args[1], USDC_DECIMALS)
FillOdds == getBigInt(call.args[2]).val
FillOddsInRange == ~FillOdds.neg /\ FillOdds.mag # <<>> /\ NLt(FillOdds.mag, E20)

\* C1: for every stake s >= 0 in smallest units and every odds p with
\* 0 < p < 10^20, calculateFillAmount returns the integer q with
\* q * (10^20 - p) <= s * p < (q + 1) * (10^20 - p), the exact quotient
\* s * p / (10^20 - p) truncated toward zero, whatever the size of the
\* product; a stake of 10 at p = 50 * 10^18 gives 10.
C1_FillAmountIsExactQuotient ==
  (FillCall /\ FillStake.ok /\ ~FillStake.val.neg /\ FillOddsInRange) =>
    /\ ret.ok
    /\ ret.val.kind = "dec" /\ ret.val.scale = 0 /\ ~ret.val.neg
    /\ LET quotient == ret.val.digits
           product == NMul(FillStake.val.mag, FillOdds.mag)
           complement == NSub(E20, FillOdds.mag)
       IN  /\ NLe(NMul(quotient, complement), product)
           /\ NLt(product, NMul(NAdd(quotient, <<1>>), complement))
    /\ (FillStake.val.mag = <<10>> /\ FillOdds.mag = NMulSmall(E16, 5000))
         => ret.val = DecInt(10)

\* a stake of 10^12 USDC at odds one below the scale: the product has 58
\* digits and the quotient 38
C1_Witness ==
  /\ FillCall
  /\ call.args = <<Dec(NPow10(12), 0), BigIntToString(ZNat(NSub(E20, <<1>>)))>>
  /\ ret = Ok(BigIntToString(ZNat(NMul(NPow10(18), NSub(E20, <<1>>)))))

RemainingCall == call.fn = "calculateRemainingTakerSpace" /\ Returned
RemainingMaker == ZSub(ZNat(IntOf(call.args[1])), ZNat(IntOf(call.args[2])))
RemainingOdds == IntOf(call.args[3])

FillOfStake(tk) == calculateFillAmountBN(tk, ZNat(RemainingOdds)).val

\* stake tk exhausts an order of total: the fill is not above the total and
\* short of it by less than the two truncations can lose, total - f <
\* 10^20 / (10^20 - p)
Exhausts(tk, total) ==
  LET f == FillOfStake(tk)
  IN  /\ ~f.neg
      /\ NLe(f.mag, total)
      /\ NLt(NMul(NSub(total, f.mag), NSub(E20, RemainingOdds)), E20)

\* C3: for every total > 0 and odds p in (0, 10^20), the fill amount of the
\* taker stake t = calculateRemainingTakerSpace(total, 0, p), taken as an
\* integer of smallest units (truncated or rounded), exhausts the order:
\* f <= total and total - f is within the truncation of the two divisions.
C3_FillOfRemainingSpaceExhausts ==
  (RemainingCall /\ call.args[2] = DecInt(0)) =>
    /\ Exhausts(MathFloor(ret.val), IntOf(call.args[1]))
    /\ Exhausts(MathRound(ret.val), IntOf(call.args[1]))

RoundCall == call.fn = "roundToNearestStep" /\ Returned

\* C4: for every implied-odds input the value roundToNearestStep returns
\* satisfies checkOddsLadderValid, it is an integer multiple of 25 * 10^16.
C4_RoundedIsOnLadder ==
  RoundCall =>
    /\ ret.ok
    /\ checkOddsLadderValid(ret.val) = Ok(TRUE)
    /\ NMod(ret.val.digits, LadderStep) = <<>>

\* 0.50333 is off the ladder and is moved onto it, to 50.25%
C4_Witness ==
  /\ RoundCall
  /\ call.args = <<Dec(NFromInt(50333), 5)>>
  /\ ret = Ok(BigIntToString(ZNat(NMulSmall(E16, 5025))))

\* the input m / 10^scale in hundred-thousandths
RoundInput == NToInt(call.args[1].digits) * (10 ^ (5 - call.args[1].scale))

\* C5: roundToNearestStep returns the ladder value nearest to the input,
\* the multiple of 0.25% (250 hundred-thousandths), a tie going to the
\* value away from zero; 0.5025 stays 50.25% and 0.50333 becomes 50.25%.
C5_RoundsToNearestTiesAway ==
  RoundCall =>
    ret = Ok(BigIntToString(ZNat(NMulSmall(LadderStep, (RoundInput + 125) \div 250))))

LadderCall == call.fn = "checkOddsLadderValid" /\ Returned

\* a natural is a multiple of 25 * 10^16 when its four low limbs of four
\* digits are zero and the fifth is a multiple of 25 (10^4 is one)
MultipleOfStep(n) ==
  /\ \A i \in 1..Len(n) : i <= 4 => n[i] = 0
  /\ Len(n) >= 5 => n[5] % 25 = 0

\* C6: for every non-negative integer percentageOdds, checkOddsLadderValid
\* is true if and only if percentageOdds mod (10^16 * 25) = 0, exactly.
C6_LadderValidIffMultiple ==
  (LadderCall /\ ~getBigInt(call.args[1]).val.neg) =>
    /\ ret.ok
    /\ ret.val <=> MultipleOfStep(getBigInt(call.args[1]).val.mag)

\* 50.25% plus one unit: off the ladder by one part in 10^20
C6_Witness ==
  /\ LadderCall
  /\ call.args = <<BigIntToString(ZNat(NAdd(NMulSmall(E16, 5025), <<1>>)))>>
  /\ ret = Ok(FALSE)
(***************************************************************************)
(* Properties of the three flows                                           *)
(***************************************************************************)
\* a value a flow has assigned (the locals start as empty tuples)
Assigned(v) == DOMAIN v # {}

OddsInRange(str) == ~str.neg /\ IntOf(str) # <<>> /\ NLt(IntOf(str), E20)

\* C7: every order the post flow has signed has totalBetSize > 0 and
\* 0 < percentageOdds < 10^20: the odds accepted by the prompt are still
\* strictly inside the interval after the snap to the ladder.
C7_SignedOrderWithinBounds ==
  call.fn = "postNewOrder" =>
    \A i \in 1..Len(signed) :
      /\ ~signed[i].message.values[3].neg
      /\ IntOf(signed[i].message.values[3]) # <<>>
      /\ OddsInRange(signed[i].message.values[4])

\* C8: when the order selected in the fill flow has percentageOdds <= 0 or
\* >= 10^20, the calculation of the fill amount is refused with an error
\* that is no division by zero, no fill amount comes out of it and no fill
\* is sent.
C8_OutOfRangeOddsRejected ==
  (call.fn = "main" /\ Assigned(loc.selectedOrder)
     /\ ~OddsInRange(loc.selectedOrder.percentageOdds)) =>
    /\ pc = "done"
    /\ ret.err \notin {"", "RangeError: Division by zero"}
    /\ ~Assigned(loc.fillAmount)
    /\ \A i \in 1..Len(net) : net[i].method # "POST"

\* C9: fillOrder called with no orders, or with orders and takerAmounts of
\* different lengths, fails before anything else happens: no salt is drawn,
\* nothing is signed, nothing is sent, and the call ends in a throw.
C9_FillOrderValidatesLengths ==
  (call.fn = "fillOrder"
     /\ (Len(call.args[1]) = 0 \/ Len(call.args[1]) # Len(call.args[2]))) =>
    /\ salts = <<>>
    /\ signed = <<>>
    /\ net = <<>>
    /\ pc = "done" => ~ret.ok

\* C10: cancelOrders called with an empty list of hashes fails before any
\* signing: no salt is drawn, no signature made, no request sent, and the
\* call ends in a throw.
C10_EmptyCancelRejected ==
  (call.fn = "cancelOrders" /\ Len(call.args[1]) = 0) =>
    /\ salts = <<>>
    /\ signed = <<>>
    /\ net = <<>>
    /\ pc = "done" => ~ret.ok

(***************************************************************************)
(* Properties of the display conversions                                   *)
(***************************************************************************)
DecimalOddsCall == call.fn = "toDecimalOdds" /\ Returned
DecimalOddsArg == parseFloat(call.args[1])

\* C11: toDecimalOdds returns 1 / impliedOdds for impliedOdds > 0 and fails
\* for every impliedOdds <= 0: what it returns is a finite decimal odds
\* value above zero.
C11_DecimalOddsDomain ==
  DecimalOddsCall =>
    /\ DGtZero(DecimalOddsArg) =>
         ret = Ok(DDiv(DFromNat(<<1>>), DecimalOddsArg))
    /\ DLeZero(DecimalOddsArg) => ~ret.ok
    /\ ret.ok => DGtZero(ret.val) /\ ret.val # DInfinity

(***************************************************************************)
(* Properties of the order hash                                            *)
(***************************************************************************)
OrderHashCall == call.fn = "orderHash" /\ Returned
SameHashedFields == \A f \in HashedFields : call.args[1][f] = call.args[2][f]

\* C12: two orders get the same hash exactly when they agree on the nine
\* fields marketHash, baseToken, totalBetSize, percentageOdds, expiry, salt,
\* maker, executor and isMakerBettingOutcomeOne: apiExpiry does not enter
\* the hash, and a change of any one of the nine changes it.
C12_HashOfNineFields ==
  OrderHashCall =>
    /\ ret.val[1].ok /\ ret.val[2].ok
    /\ SameHashedFields <=> ret.val[1] = ret.val[2]

\* two orders that differ in apiExpiry only, and have one hash
C12_Witness ==
  /\ OrderHashCall
  /\ call.args[1].apiExpiry # call.args[2].apiExpiry
  /\ SameHashedFields
  /\ ret.val[1] = ret.val[2]

\* C13: the preimage of the hash that postOrder signs lists marketHash,
\* baseToken, totalBetSize, percentageOdds, expiry, salt, maker, executor,
\* isMakerBettingOutcomeOne in this order, with the types bytes32, address,
\* uint256, uint256, uint256, uint256, address, address, bool at the same
\* positions, nothing left out and nothing added; the Order type of the
\* fill schema names the same fields with the same types in the same order.
C13_PreimageFieldOrder ==
  call.fn = "postNewOrder" =>
    \A i \in 1..Len(signed) :
      /\ signed[i].message.types =
           <<"bytes32", "address", "uint256", "uint256", "uint256", "uint256", "address",
             "address", "bool">>
      /\ signed[i].message.values =
           <<loc.order.marketHash, loc.order.baseToken, loc.order.totalBetSize,
             loc.order.percentageOdds, loc.order.expiry, loc.order.salt, loc.order.maker,
             loc.order.executor, loc.order.isMakerBettingOutcomeOne>>
      /\ [k \in 1..9 |-> FillTypes.Order[k][2]] = signed[i].message.types
      /\ [k \in 1..9 |-> FillTypes.Order[k][1]] =
           <<"marketHash", "baseToken", "totalBetSize", "percentageOdds", "expiry", "salt",
             "maker", "executor", "isMakerBettingOutcomeOne">>

\* an order on outcome two has been hashed and signed
C13_Witness ==
  /\ call.fn = "postNewOrder"
  /\ Len(signed) = 1
  /\ signed[1].message.values[9] = FALSE
  /\ signed[1].message.values[6] = MaxSalt

(***************************************************************************)
(* Properties of the fill message and of the fill request                  *)
(***************************************************************************)
InFill == call.fn \in {"main", "fillOrder"}
FillPosts == {i \in 1..Len(net) : net[i].method = "POST"}

\* the nine fields of an order
NineFields(order) ==
  [marketHash |-> order.marketHash, baseToken |-> order.baseToken,
   totalBetSize |-> order.totalBetSize, percentageOdds |-> order.percentageOdds,
   expiry |-> order.expiry, salt |-> order.salt, maker |-> order.maker,
   executor |-> order.executor,
   isMakerBettingOutcomeOne |-> order.isMakerBettingOutcomeOne]

\* C14: in every signed fill message makerSigs, orders and takerAmounts have
\* one length, and at every index makerSigs holds the signature field of
\* the input order, orders its nine fields and takerAmounts the amount
\* supplied for it.
C14_FillArraysAligned ==
  InFill =>
    \A i \in 1..Len(signed) :
      /\ Len(signed[i].message.fills.makerSigs) = Len(loc.orders)
      /\ Len(signed[i].message.fills.orders) = Len(loc.orders)
      /\ \A k \in 1..Len(loc.orders) :
           /\ signed[i].message.fills.makerSigs[k] = loc.orders[k].signature
           /\ signed[i].message.fills.orders[k] = NineFields(loc.orders[k])
      /\ signed[i].message.fills.takerAmounts = loc.takerAmounts
      /\ Len(signed[i].message.fills.takerAmounts) = Len(signed[i].message.fills.orders)

\* C15: in every signed fill message and in every fill request the fields
\* action, market, betting, stake, odds and returning are "N/A", whatever
\* is filled, and beneficiary, beneficiaryType and cashOutTarget of the
\* message are the zero address, 0 and the zero hash.
C15_FillPlaceholders ==
  InFill =>
    /\ \A i \in 1..Len(signed) :
         /\ \A f \in {"action", "market", "betting", "stake", "odds", "returning"} :
              signed[i].message[f] = "N/A"
         /\ signed[i].message.fills.beneficiary = "0x0000000000000000000000000000000000000000"
         /\ signed[i].message.fills.beneficiaryType = 0
         /\ signed[i].message.fills.cashOutTarget =
              "0x0000000000000000000000000000000000000000000000000000000000000000"
    /\ \A i \in FillPosts :
         \A f \in {"action", "market", "betting", "stake", "odds", "returning"} :
           net[i].body[f] = "N/A"

\* a fill of two orders has been signed and sent
C15_Witness ==
  /\ InFill
  /\ FillPosts # {}
  /\ Len(signed) = 1
  /\ Len(signed[1].message.fills.orders) = 2
  /\ Len(signed[1].message.fills.takerAmounts) = 2

\* C16: the fill request agrees with what was signed: orderHashes are the
\* hashes of the orders of the message, index by index, takerAmounts is the
\* signed array, fillSalt is the salt of the message and the only salt
\* drawn, takerSig is the signature over that message.
C16_FillRequestMatchesSigned ==
  InFill =>
    \A i \in FillPosts :
      /\ Len(signed) = 1
      /\ net[i].body.takerSig = signed[1]
      /\ net[i].body.takerAmounts = signed[1].message.fills.takerAmounts
      /\ net[i].body.fillSalt = signed[1].message.fills.fillSalt
      /\ salts = <<NToInt(net[i].body.fillSalt.digits)>>
      /\ Len(net[i].body.orderHashes) = Len(signed[1].message.fills.orders)
      /\ \A k \in 1..Len(loc.orders) :
           /\ net[i].body.orderHashes[k] = loc.orders[k].orderHash
           /\ signed[1].message.fills.orders[k] = NineFields(loc.orders[k])

\* the fill of the two orders 0xorder1 and 0xorder2 has been sent with the
\* second salt
C16_Witness ==
  /\ InFill
  /\ \E i \in FillPosts :
       /\ net[i].body.orderHashes = <<"0xorder1", "0xorder2">>
       /\ net[i].body.fillSalt = DecInt(MaxSalt)

\* C17: fillOrder hands the signed request back to its caller and issues no
\* HTTP request itself.
C17_FillOrderOffline ==
  call.fn = "fillOrder" => net = <<>>

(***************************************************************************)
(* Properties of the cancellation                                          *)
(***************************************************************************)
InCancel == call.fn \in {"cancelOrder", "cancelOrders"}

\* C19: in every cancellation the signed typed data has the message
\* (orderHashes, timestamp) and the domain (name "CancelOrderV2SportX",
\* version "1.0", chainId, salt), and the request {signature, orderHashes,
\* salt, maker, timestamp} carries the salt, the hashes and the timestamp
\* that were signed, the salt of the domain being the salt drawn for the
\* request.
C19_CancelBindsWhatIsSent ==
  InCancel =>
    /\ Len(net) = Len(signed)
    /\ \A i \in 1..Len(net) :
         /\ DOMAIN net[i].body = {"signature", "orderHashes", "salt", "maker", "timestamp"}
         /\ net[i].body.signature = signed[i]
         /\ signed[i].data.primaryType = "Details"
         /\ DOMAIN signed[i].data.message = {"orderHashes", "timestamp"}
         /\ DOMAIN signed[i].data.domain = {"name", "version", "chainId", "salt"}
         /\ signed[i].data.domain.name = "CancelOrderV2SportX"
         /\ signed[i].data.domain.version = "1.0"
         /\ signed[i].data.domain.chainId = CHAIN_ID
         /\ signed[i].data.domain.salt = net[i].body.salt
         /\ signed[i].data.domain.salt = salts[i]
         /\ signed[i].data.message.orderHashes = net[i].body.orderHashes
         /\ signed[i].data.message.timestamp = net[i].body.timestamp

\* the cancellation of two orders has been sent with the second salt at the
\* second time
C19_Witness ==
  /\ InCancel
  /\ Len(net) = 1
  /\ Len(net[1].body.orderHashes) = 2
  /\ net[1].body.salt = MaxSalt
  /\ net[1].body.timestamp = MaxTime

(***************************************************************************)
(* Properties of the salts over several requests                           *)
(***************************************************************************)
\* the salt that a request carries
SentSalt(request) ==
  IF "orders" \in DOMAIN request.body THEN request.body.orders[1].order.salt
  ELSE IF "fillSalt" \in DOMAIN request.body THEN NToInt(request.body.fillSalt.digits)
  ELSE request.body.salt

\* the salt that a signature covers
SignedSalt(signature) ==
  IF "data" \in DOMAIN signature THEN signature.data.domain.salt
  ELSE IF "domain" \in DOMAIN signature
       THEN NToInt(signature.message.fills.fillSalt.digits)
  ELSE signature.message.values[6]

\* C18: over any sequence of calls of postOrder, fillOrder and cancelOrders
\* every call makes one draw from the entropy source, what it signs and what
\* it sends carry that draw as their salt, and no two requests carry the
\* same salt, whatever their other fields.
C18_NewSaltPerRequest ==
  /\ Len(net) <= Len(signed)
  /\ Len(signed) <= Len(salts)
  /\ Len(salts) <= Len(net) + 1
  /\ pc \in {"idle", "done"} => Len(salts) = Len(net)
  /\ \A i \in 1..Len(salts) : salts[i] \in 1..MaxSalt
  /\ \A i \in 1..Len(signed) : SignedSalt(signed[i]) = salts[i]
  /\ \A i \in 1..Len(net) : SentSalt(net[i]) = salts[i]
  /\ \A i \in 1..Len(net) : \A j \in 1..Len(net) :
       i # j => SentSalt(net[i]) # SentSalt(net[j])

\* two cancellations of the same orders at the same time have been sent, one
\* after the other, alike in everything but the salt and the signature
C18_Witness ==
  /\ Len(net) = 2
  /\ pc = "done"
  /\ \A i \in 1..2 : "salt" \in DOMAIN net[i].body
  /\ net[1].body.orderHashes = net[2].body.orderHashes
  /\ net[1].body.timestamp = net[2].body.timestamp
  /\ net[1].body.maker = net[2].body.maker
  /\ net[1].url = net[2].url
  /\ net[1].body.salt # net[2].body.salt

(***************************************************************************)
(* Properties of the three programs together                               *)
(***************************************************************************)
\* the run has entered postOrder, fillOrder or cancelOrders
BuilderEntered ==
  \/ call.fn \in {"fillOrder", "cancelOrders"} /\ pc # call.fn
  \/ call.fn = "main" /\ loc.orders # <<>> /\ pc # "fillOrder"
  \/ call.fn = "postNewOrder" /\ pc \in {"postOrder:signed", "postOrder:response"}
  \/ call.fn = "postNewOrder" /\ pc = "done" /\ salts # <<>>
  \/ call.fn = "cancelOrder" /\ loc.orderHashes # <<>> /\ pc # "cancelOrders"

\* C20: without a private key postOrder, fillOrder and cancelOrders end in
\* an error that reaches the caller (thrown to it, or caught and printed by
\* the command line): nothing is signed and no order, fill or cancellation
\* is sent.
C20_NoKeyNoRequest ==
  env = "" =>
    /\ signed = <<>>
    /\ \A i \in 1..Len(net) : net[i].method # "POST"
    /\ BuilderEntered =>
         /\ pc = "done"
         /\ ret.err # ""
         /\ call.fn \in {"fillOrder", "cancelOrders"} => ~ret.ok

\* a cancellation started at the command line has been refused for want of
\* a key
C20_Witness ==
  /\ env = ""
  /\ call.fn = "cancelOrder"
  /\ BuilderEntered
  /\ ret = Caught("PRIVATE_KEY not found in .env file")

(***************************************************************************)
(* Properties of the way failures leave the three functions                *)
(***************************************************************************)
\* C21: a failure inside postOrder, fillOrder or cancelOrders (of the
\* conversion, the hash, the signature or the submission) ends the call
\* with an error: no call ends normally with the failure answer of the API
\* as its result.
C21_FailuresAreRaised ==
  pc = "done" => ~(ret.ok /\ ret.err = "" /\ ret.val = <<"failure">>)

(***************************************************************************)
(* Properties of calls under way at once                                   *)
(***************************************************************************)
\* every call, the one that runs and the ones that wait
Calls ==
  [t \in 1..MaxTasks |->
     IF t = call.task
     THEN [fn |-> call.fn, args |-> call.args, pc |-> pc, loc |-> loc, ret |-> ret]
     ELSE call.waiting[t]]

\* the call has sent its request
HasSent(c) == c.pc \in {"fillOrder:response", "cancelOrders:response"}

\* the payload of the fill had it run alone
FillPayloadAlone(c) == createFillOrderPayload(c.args[1], c.args[2], MAKER, c.loc.fillSalt)

\* the request of the call had it run alone: a function of its arguments,
\* of the salt it drew and of the time it read
RequestAlone(c) ==
  IF c.fn = "fillOrder"
  THEN [orderHashes |-> [k \in 1..Len(c.args[1]) |-> c.args[1][k].orderHash],
        takerAmounts |-> c.args[2],
        taker |-> MAKER,
        takerSig |-> signTypedData(env, FillPayloadAlone(c).domain, FillPayloadAlone(c).types,
                                   FillPayloadAlone(c).message).val,
        fillSalt |-> c.loc.fillSalt,
        action |-> "N/A", market |-> "N/A", betting |-> "N/A",
        stake |-> "N/A", odds |-> "N/A", returning |-> "N/A"]
  ELSE [signature |-> signTypedDataV4(env,
                        getCancelOrderEIP712Payload(c.args[1], c.loc.salt, c.loc.timestamp)),
        orderHashes |-> c.args[1],
        salt |-> c.loc.salt,
        maker |-> MAKER,
        timestamp |-> c.loc.timestamp]

\* C22: however the steps of several calls of fillOrder and cancelOrders
\* interleave, every call sends one request, and it is the request the call
\* would have sent alone: a function of its own arguments, of the salt it
\* drew and of the time it read, with nothing of another call in it.
C22_ConcurrentCallsIndependent ==
  /\ Len(net) = Cardinality({t \in 1..MaxTasks : HasSent(Calls[t])})
  /\ \A t \in 1..MaxTasks :
       HasSent(Calls[t]) =>
         /\ \E i \in 1..Len(net) : net[i].body = RequestAlone(Calls[t])
         /\ \E i \in 1..Len(salts) :
              salts[i] = IF Calls[t].fn = "fillOrder"
                         THEN NToInt(Calls[t].loc.fillSalt.digits)
                         ELSE Calls[t].loc.salt

\* two fills have overtaken each other: the first call drew its salt first
\* and sent its request last
C22_Witness ==
  /\ Len(net) = 2
  /\ Calls[1].fn = "fillOrder"
  /\ Calls[2].fn = "fillOrder"
  /\ Calls[1].loc.fillSalt = DecInt(salts[1])
  /\ net[2].body = RequestAlone(Calls[1])
  /\ net[1].body = RequestAlone(Calls[2])

(***************************************************************************)
(* Properties of the signatures                                            *)
(***************************************************************************)
\* the account of the key of the call, whatever the form of its text
KeyAccount == computeAddress(call.args[1][Len(call.args[1])])

TradesCall == call.fn = "fetchAllTrades"

\* C24: fetchAllTrades(params, maxRecords) with maxRecords >= 0 returns at
\* most maxRecords trades, the first ones of the pages it fetched put end
\* to end in the order of their arrival; every request after the first
\* carries as paginationKey the nextKey of the answer just before it, and
\* the parameters of the caller are left as they were.
C24_FetchAllTradesBounded ==
  TradesCall =>
    /\ loc.params = call.args[1]
    /\ \A i \in 2..Len(net) :
         /\ "paginationKey" \in DOMAIN net[i].url[2]
         /\ net[i].url[2].paginationKey = net[i - 1].answer.nextKey
         /\ net[i - 1].answer.nextKey # ""
    /\ Returned /\ ret.ok =>
         /\ Len(ret.val) <= call.args[2]
         /\ Len(ret.val) <= Len(loc.fetched)
         /\ ret.val = SubSeq(loc.fetched, 1, Len(ret.val))

\* two pages have been fetched with the key of the first, and the three
\* trades of them cut down to two
C24_Witness ==
  /\ TradesCall
  /\ Returned
  /\ call.args[2] = 2
  /\ Len(net) = 2
  /\ net[1].answer.nextKey = "key2"
  /\ net[2].url[2].paginationKey = "key2"
  /\ loc.fetched = <<"trade1", "trade2", "trade3">>
  /\ ret.val = <<"trade1", "trade2">>

\* C28: when every request is answered fetchAllTrades ends, also when the
\* API goes on answering with empty pages and the key of a next page.
C28_FetchAllTradesTerminates == <>(pc = "done")

(***************************************************************************)
(* Properties of the websocket module                                      *)
(***************************************************************************)
\* the channels whose listener hears messages: those of a connected client
LiveChannels ==
  {channel \in loc.listeners : loc.clients[channel.client] = "connected"}

\* the clients that are connected
OpenClients == {client \in 1..Len(loc.clients) : loc.clients[client] = "connected"}

\* C25: after any sequence of calls of subscribeToOrderBook,
\* unsubscribeFromOrderBook and closeConnection, failing ones included, at
\* most one channel has a listener that hears messages, and it is
\* activeChannel.
C25_OneLiveChannel ==
  /\ Cardinality(LiveChannels) <= 1
  /\ \A channel \in LiveChannels : loc.activeChannel = channel

\* C26: between two calls isSubscribedToChannel() is true exactly when
\* activeChannel is not null.
C26_FlagAgreesWithChannel ==
  isSubscribedToChannel(loc) <=> loc.activeChannel # <<>>

\* C27: over any sequence of choices at the menu at most one client is
\* connected, and after the exit none is.
C27_OneClientOpen ==
  /\ Cardinality(OpenClients) <= 1
  /\ pc = "exited" => OpenClients = {}

(***************************************************************************)
(* Properties of the fill amount of an accepted stake                      *)
(***************************************************************************)
\* C29: a stake that the prompt of main accepts (parseFloat(input) > 0)
\* gives, at any odds strictly between 0 and 10^20, a fill amount that is
\* strictly positive, the amount main hands to fillOrder.
C29_AcceptedStakeFillsPositive ==
  (call.fn = "calculateFillAmount" /\ Returned /\ call.args[1] \in StakePrompts
     /\ OddsInRange(call.args[2]))
    => (ret.ok /\ ZLt(ZZero, getBigInt(ret.val).val))

(***************************************************************************)
(* Properties of the party a request declares                              *)
(***************************************************************************)
\* the party that a request declares: the maker of the posted order, the
\* taker of the fill, the maker of the cancellation
DeclaredParty(request) ==
  IF "orders" \in DOMAIN request.body THEN request.body.orders[1].order.maker
  ELSE IF "taker" \in DOMAIN request.body THEN request.body.taker
  ELSE request.body.maker

\* the signature that a request carries
CarriedSignature(request) ==
  IF "orders" \in DOMAIN request.body THEN request.body.orders[1].signature
  ELSE IF "takerSig" \in DOMAIN request.body THEN request.body.takerSig
  ELSE request.body.signature

\* C30: in every request sent, the declared party is the account of the
\* private key that made the signature of the request, whichever key
\* PRIVATE_KEY holds.
C30_DeclaredPartySigned ==
  \A i \in 1..Len(net) :
    net[i].method = "POST" =>
      DeclaredParty(net[i]) = CarriedSignature(net[i]).signer

====
